---- MODULE Spec2Model ----
(***************************************************************************)
(* Request dispatch core of the MCP boilerplate server.                    *)
(*                                                                         *)
(* Three entry points reach a tool:                                        *)
(*   "http"       HttpTransport (Express app): middleware chain, then the  *)
(*                routes /health /info /rpc /tools /tools/:name            *)
(*   "stdio_base" BaseMcpServer's CallTool handler (Promise.race timeout)  *)
(*   "stdio_http" HttpMcpServer's CallTool handler (-> _executeTool)       *)
(*                                                                         *)
(* One request is followed at a time through its handler; the rate         *)
(* limiter's store and the clock persist across requests.  Time is         *)
(* counted in ticks; the millisecond configuration values are scaled to    *)
(* ticks (see the definitions below).                                      *)
(***************************************************************************)
EXTENDS Integers, Sequences, FiniteSets, TLC

\* ---------------------------------------------------------------------------
\* Bounds and scaled configuration values
\* ---------------------------------------------------------------------------

\* last tick of the clock
MaxTime == 3

\* rateLimit.windowMs (15 * 60 * 1000 ms in DEFAULT_HTTP_CONFIG), in ticks
windowMs == 2

\* rateLimit.maxRequests (5000 in DEFAULT_HTTP_CONFIG), scaled down
maxRequests == 2

\* DEFAULT_TIMEOUTS.TOOL_EXECUTION (30000 ms), in ticks
TOOL_EXECUTION == 1

\* security.timeout (30000 ms in DEFAULT_HTTP_SERVER_CONFIG), in ticks
securityTimeout == 1

\* how many start/stop/restart calls a behaviour makes
MaxOps == 3

\* how many tools a behaviour registers
MaxRegs == 3

\* how far the request and error counters are followed
MaxCount == 1

\* DEFAULT_TIMEOUTS.SERVER_SHUTDOWN, in ticks
SERVER_SHUTDOWN == 1

\* ---------------------------------------------------------------------------
\* Tools
\* ---------------------------------------------------------------------------

\* names held by the server's _tools map (and the HttpTransport's copy of it)
RegisteredTools == {"echo", "example_tool", "health", "prompt_attributes"}

\* a name no tool is registered under
UnknownTool == "ghost"

\* An McpTool object.  name: its `name` property; impl: which execute
\* function it carries; hasDescription: 'description' in tool;
\* executeIsFunction: typeof tool.execute === 'function'; hasParameters:
\* its `parameters` (input schema) property is set.
Tool(name, impl, hasDescription, executeIsFunction, hasParameters) ==
    [name |-> name, impl |-> impl, hasDescription |-> hasDescription,
     executeIsFunction |-> executeIsFunction, hasParameters |-> hasParameters]

\* what Map.get answers for a key the map does not hold
NoTool == Tool("", 0, FALSE, FALSE, FALSE)

\* A Map<string, McpTool> is the sequence of its values in insertion order
\* (each value under the key value.name).
MapKeys(m) == [i \in 1..Len(m) |-> m[i].name]

MapHas(m, name) == \E i \in 1..Len(m) : m[i].name = name

MapGet(m, name) ==
    IF MapHas(m, name) THEN m[CHOOSE i \in 1..Len(m) : m[i].name = name] ELSE NoTool

\* MapSet that moves a key set again to the last place
MapSetMoveToEnd(m, t) == Append(SelectSeq(m, LAMBDA x : x.name # t.name), t)

\* Map.set: a key the map holds keeps its place, a new key goes last
MapSet(m, t) ==
    IF MapHas(m, t.name)
    THEN [i \in 1..Len(m) |-> IF m[i].name = t.name THEN t ELSE m[i]]
    ELSE Append(m, t)

\* the elements of a sequence
SetOf(seq) == {seq[i] : i \in 1..Len(seq)}

\* the tools the running server of the dispatch specification holds
InitialTools ==
    << Tool("echo", 1, TRUE, TRUE, TRUE), Tool("example_tool", 1, TRUE, TRUE, TRUE),
       Tool("health", 1, TRUE, TRUE, TRUE), Tool("prompt_attributes", 1, TRUE, TRUE, TRUE) >>

ToolNames == RegisteredTools \cup {UnknownTool}

\* What tool.execute(input) settles with.  example_tool always resolves with
\* the MCP content shape {content: [...], isError?} (it catches its own
\* errors); the other tools resolve with a ToolResult {success, data|error}
\* or reject, as the input makes them.
\*   "ok"      {success: true, data}
\*   "fail"    {success: false, error}
\*   "throw"   rejected promise
\*   "content" {content: [...]}            (no `success` property)
ToolReturn(name, behav) == IF name = "example_tool" THEN "content" ELSE behav

\* isToolResult(value): an object with a boolean `success`
isToolResult(ret) == ret \in {"ok", "fail"}

\* isMcpTool(value): 'name', 'description' and 'execute' are properties of
\* the object and execute is a function (every object tried has `name`)
isMcpTool(t) == t.hasDescription /\ t.executeIsFunction

\* ---------------------------------------------------------------------------
\* Requests
\* ---------------------------------------------------------------------------

NoToken == ""

\* "key"        one of auth.apiKeys
\* "jwt"        signed with auth.jwtSecret, not expired, payload {userObjId, ..}
\* "jwt_nosub"  signed with auth.jwtSecret, not expired, payload without userObjId
\* "jwt_str"    signed with auth.jwtSecret, its payload a plain string
\* "expired"    signed with auth.jwtSecret, exp in the past
\* "forged"     a JWT signed with another secret
\* "bad"        not a JWT and not an API key
Tokens == {"key", "jwt", "jwt_nosub", "jwt_str", "expired", "forged", "bad"}

\* method/path/ip: the HTTP request line and client address (req.ip);
\* xAccessToken/authorization: the two credential headers;
\* bodyOk: the body parses as JSON; jsonrpc/rpcMethod: a JSON-RPC message;
\* name: the tool named by the route parameter or by params.name;
\* queryAction/bodyAction: the `action` of the query string and of the body;
\* behav: how the tool the request names reacts to this input.
Req(entry, method, path, ip, xtok, authz, bodyOk, jsonrpc, rpcMethod, name, qa, ba, behav) ==
    [entry |-> entry, method |-> method, path |-> path, ip |-> ip,
     xAccessToken |-> xtok, authorization |-> authz, bodyOk |-> bodyOk,
     jsonrpc |-> jsonrpc, rpcMethod |-> rpcMethod, name |-> name,
     queryAction |-> qa, bodyAction |-> ba, behav |-> behav]

NoReq == Req("none", "", <<>>, "", NoToken, NoToken, TRUE, "", "", "", "", "", "ok")

\* credential carriers tried: none, each header alone, a token that fails
Creds == {<<NoToken, NoToken>>, <<"key", NoToken>>, <<"jwt", NoToken>>,
          <<NoToken, "key">>, <<"bad", NoToken>>}

FewCreds == {<<NoToken, NoToken>>, <<"key", NoToken>>, <<"bad", NoToken>>}

Behavs == {"ok", "fail", "throw"}

\* POST|GET /mcp/tools/:name
ToolRequests ==
    { Req("http", m, <<"mcp", "tools", "echo">>, "ip1", c[1], c[2], TRUE, "", "", "echo", "", "", b) :
        m \in {"GET", "POST"}, c \in Creds, b \in Behavs }
    \cup
    { Req("http", m, <<"mcp", "tools", n>>, "ip1", c[1], c[2], TRUE, "", "", n, "", "", "ok") :
        m \in {"GET", "POST"}, n \in {"health", UnknownTool}, c \in Creds }
    \cup
    { Req("http", m, <<"mcp", "tools", "example_tool">>, "ip1", c[1], c[2], TRUE, "", "",
          "example_tool", IF m = "GET" THEN "list_items" ELSE "", IF m = "GET" THEN "" ELSE "list_items", "ok") :
        m \in {"GET", "POST"}, c \in FewCreds }
    \cup
    { Req("http", "GET", <<"mcp", "tools", "prompt_attributes">>, "ip1", c[1], c[2], TRUE, "", "",
          "prompt_attributes", qa, "", "ok") :
        c \in FewCreds, qa \in {"get_default", "list_items"} }
    \cup
    { Req("http", "POST", <<"mcp", "tools", "prompt_attributes">>, "ip1", c[1], c[2], TRUE, "", "",
          "prompt_attributes", qa, ba, "ok") :
        c \in FewCreds, qa \in {"", "get_default"}, ba \in {"get_default", "list_items"} }
    \cup
    \* a body express.json cannot parse
    { Req("http", "POST", <<"mcp", "tools", "echo">>, "ip1", "key", NoToken, FALSE, "", "", "echo", "", "", "ok") }

\* GET /mcp/health, /mcp/info, /mcp/tools and a path no route serves
PlainRequests ==
    { Req("http", "GET", <<"mcp", p>>, "ip1", c[1], c[2], TRUE, "", "", "", "", "", "ok") :
        p \in {"health", "info", "tools", "nowhere"},
        c \in {<<NoToken, NoToken>>, <<"key", NoToken>>} }

\* POST /mcp/rpc
RpcRequests ==
    { Req("http", "POST", <<"mcp", "rpc">>, "ip1", c[1], c[2], TRUE, "2.0", "tools/call", n, "", "", b) :
        c \in {<<NoToken, NoToken>>, <<"key", NoToken>>},
        n \in {"echo", UnknownTool}, b \in Behavs }
    \cup
    { Req("http", "POST", <<"mcp", "rpc">>, "ip1", "key", NoToken, TRUE, v, me, "", "", "", "ok") :
        v \in {"2.0", ""}, me \in {"tools/list", "unknown/method", ""} }

\* tools/call arriving on the stdio transport of either server class
StdioRequests ==
    { Req(e, "", <<>>, "", NoToken, NoToken, TRUE, "2.0", "tools/call", n, "", "", b) :
        e \in {"stdio_base", "stdio_http"}, n \in {"echo", UnknownTool}, b \in Behavs }
    \cup
    { Req(e, "", <<>>, "", NoToken, NoToken, TRUE, "2.0", "tools/call", "example_tool", "", "list_items", "ok") :
        e \in {"stdio_base", "stdio_http"} }

\* the `action` values example_tool's declared schema admits
ExampleToolActions == {"get_data", "create_item", "update_item", "delete_item", "list_items"}

\* calls of example_tool whose input lacks the `action` its schema requires
InvalidInputRequests ==
    { Req("http", "POST", <<"mcp", "tools", "example_tool">>, "ip1", "key", NoToken, TRUE, "", "",
          "example_tool", "", "", "ok") }
    \cup
    { Req(e, "", <<>>, "", NoToken, NoToken, TRUE, "2.0", "tools/call", "example_tool", "", "", "ok") :
        e \in {"stdio_base", "stdio_http"} }

\* the requests the dispatch specification draws from
Requests == ToolRequests \cup PlainRequests \cup RpcRequests \cup StdioRequests \cup InvalidInputRequests

\* the requests the registry specification draws from: calls of echo and
\* tool discovery on each transport, and the server's own getTool/listTools
RegistryRequests ==
    { Req("http", "POST", <<"mcp", "tools", "echo">>, "ip1", NoToken, NoToken, TRUE, "", "", "echo", "", "", "ok"),
      Req("http", "GET", <<"mcp", "tools">>, "ip1", NoToken, NoToken, TRUE, "", "", "", "", "", "ok") }
    \cup
    { Req(e, "", <<>>, "", NoToken, NoToken, TRUE, "2.0", me, IF me = "tools/call" THEN "echo" ELSE "", "", "", "ok") :
        e \in {"stdio_base", "stdio_http"}, me \in {"tools/call", "tools/list"} }
    \cup
    { Req("api", "", <<>>, "", NoToken, NoToken, TRUE, "", "listTools", "", "", "", "ok"),
      Req("api", "", <<>>, "", NoToken, NoToken, TRUE, "", "getTool", "echo", "", "", "ok") }
    \cup
    \* the two health reports: getHealth() and GET /health
    { Req("api", "", <<>>, "", NoToken, NoToken, TRUE, "", "getHealth", "", "", "", "ok"),
      Req("http", "GET", <<"mcp", "health">>, "ip1", NoToken, NoToken, TRUE, "", "", "", "", "", "ok") }

\* the requests the authentication specification draws from: a tool call
\* with every pair of credential headers, and a health check without any
AuthRequests ==
    { Req("http", "POST", <<"mcp", "tools", "echo">>, "ip1", x, a, TRUE, "", "", "echo", "", "", "ok") :
        x \in Tokens \cup {NoToken}, a \in Tokens \cup {NoToken} }
    \cup
    { Req("http", "GET", <<"mcp", "health">>, "ip1", NoToken, NoToken, TRUE, "", "", "", "", "", "ok") }

\* the requests the limiter specification draws from: two client addresses,
\* a call that succeeds (200), calls that fail (400, 404), a health check
LimiterRequests ==
    { Req("http", "POST", <<"mcp", "tools", "echo">>, ip, "key", NoToken, TRUE, "", "", "echo", "", "", b) :
        ip \in {"ip1", "ip2"}, b \in {"ok", "fail"} }
    \cup
    { Req("http", "GET", <<"mcp", "tools", UnknownTool>>, "ip1", "key", NoToken, TRUE, "", "", UnknownTool, "", "", "ok") }
    \cup
    { Req("http", "GET", <<"mcp", "health">>, ip, NoToken, NoToken, TRUE, "", "", "", "", "", "ok") :
        ip \in {"ip1", "ip2"} }

Keys == {"ip1", "ip2"}


\* ---------------------------------------------------------------------------
\* Responses
\* ---------------------------------------------------------------------------

\* the `checks` of a payload that has none
NoChecks == [server |-> "absent", memory |-> "absent", tools |-> "absent", performance |-> "absent"]

\* the statuses a HealthCheck takes
CheckStatuses == {"pass", "warn", "fail"}

\* getHealth: overallStatus
OverallStatus(checks) ==
    IF \A k \in DOMAIN checks : checks[k] = "pass" THEN "healthy"
    ELSE IF \E k \in DOMAIN checks : checks[k] = "fail" THEN "unhealthy"
    ELSE "degraded"


\* status:   HTTP status code (0 on stdio)
\* kind:     which piece of code built the payload
\* success:  the payload's `success` property ("absent" when it has none)
\* health:   the payload's health `status` ("absent" when it has none)
\* checks:   the payload's `checks`, each "pass" | "warn" | "fail"
\* isError:  the payload's `isError` property
\* hasList:  the payload lists tool names; tools: the names, in the order listed
\* executionTime, requestId, timestamp, message: the payload carries them
\* code:     JSON-RPC error code (0 when there is none)
Resp(status, kind, success, isError, hasList, tls, et, rid, ts, msg, code) ==
    [status |-> status, kind |-> kind, success |-> success, isError |-> isError,
     hasList |-> hasList, tools |-> tls, executionTime |-> et, requestId |-> rid,
     timestamp |-> ts, message |-> msg, code |-> code,
     health |-> "absent", checks |-> NoChecks]

NoResp == Resp(0, "none", "absent", "absent", FALSE, <<>>, FALSE, FALSE, FALSE, FALSE, 0)

\* express-rate-limit's default handler: res.status(429).send(message)
RateLimitedResp == Resp(429, "RateLimited", "absent", "absent", FALSE, <<>>, FALSE, FALSE, FALSE, TRUE, 0)

\* global error handler; req.context is not yet set when body parsing fails
ErrorHandlerResp(status, hasCtx) ==
    Resp(status, "ErrorHandler", "absent", "absent", FALSE, <<>>, FALSE, hasCtx, TRUE, TRUE, 0)

RequestTimeoutResp == Resp(408, "RequestTimeout", "absent", "absent", FALSE, <<>>, FALSE, FALSE, FALSE, TRUE, 0)

UnauthorizedResp == Resp(401, "Unauthorized", "absent", "absent", FALSE, <<>>, FALSE, FALSE, TRUE, TRUE, 0)

\* 200 {status: 'healthy', timestamp, sessionId, uptime, memory, version}
HealthResp ==
    [Resp(200, "Health", "absent", "absent", FALSE, <<>>, FALSE, FALSE, TRUE, FALSE, 0)
        EXCEPT !.health = "healthy"]

\* getHealth(): {status: overallStatus, checks, timestamp, uptime}
HealthCheckResult(checks) ==
    [Resp(0, "HealthCheck", "absent", "absent", FALSE, <<>>, FALSE, FALSE, TRUE, FALSE, 0)
        EXCEPT !.health = OverallStatus(checks), !.checks = checks]

InfoResp == Resp(200, "Info", "absent", "absent", FALSE, <<>>, FALSE, FALSE, FALSE, FALSE, 0)

ListToolsResp(tls) == Resp(200, "ListTools", "absent", "absent", TRUE, tls, FALSE, FALSE, TRUE, FALSE, 0)

RouteNotFoundResp == Resp(404, "RouteNotFound", "absent", "absent", FALSE, <<>>, FALSE, FALSE, TRUE, TRUE, 0)

InvalidRequestResp == Resp(400, "JsonRpcError", "absent", "absent", FALSE, <<>>, FALSE, FALSE, FALSE, TRUE, -32600)

\* 202 {jsonrpc, result: {accepted: true}, id}
AcceptedResp == Resp(202, "Accepted", "absent", "absent", FALSE, <<>>, FALSE, FALSE, FALSE, FALSE, 0)

\* 404 {error: 'Tool Not Found', message, availableTools, timestamp}
ToolNotFoundResp(tls) == Resp(404, "ToolNotFound", "absent", "absent", TRUE, tls, FALSE, FALSE, TRUE, TRUE, 0)

\* the success property of what the tool resolved with
SuccessOf(ret) == IF ret = "ok" THEN "true" ELSE IF ret = "fail" THEN "false" ELSE "absent"

\* _handleExecuteTool: statusCode = result.success ? 200 : 400, body = result
\* (the execution time goes to the X-Execution-Time header, not to the body)
HttpToolResultResp(ret) ==
    Resp(IF ret = "ok" THEN 200 ELSE 400, "ToolResult", SuccessOf(ret),
         "absent", FALSE, <<>>, FALSE, FALSE, FALSE, ret = "fail", 0)

\* 500 {error: 'Tool Execution Failed', message, timestamp}
ExecutionFailedResp == Resp(500, "ExecutionFailed", "absent", "absent", FALSE, <<>>, FALSE, FALSE, TRUE, TRUE, 0)

\* BaseMcpServer: content text = JSON.stringify(result)
BaseToolResultResp(ret) ==
    Resp(0, "ToolResult", SuccessOf(ret), "absent", FALSE, <<>>, FALSE, FALSE, FALSE, ret = "fail", 0)

\* BaseMcpServer catch: {success: false, error, metadata: {executionTime, timestamp}}
BaseErrorResp == Resp(0, "ErrorResult", "false", "absent", FALSE, <<>>, TRUE, FALSE, TRUE, TRUE, 0)

\* HttpMcpServer._executeTool: {content: data | error, isError: !result.success}
CallResultResp(ret) ==
    Resp(0, "CallResult", "absent", IF ret = "ok" THEN "false" ELSE "true",
         FALSE, <<>>, FALSE, FALSE, FALSE, ret = "fail", 0)

\* the ListTools handlers and listTools(): the tools, as the Map iterates them
ToolsListResult(names) ==
    Resp(0, "ToolsList", "absent", "absent", TRUE, names, FALSE, FALSE, FALSE, FALSE, 0)

\* getTool(name): the tool object or undefined
GetToolResult(t) ==
    Resp(0, "Tool", "absent", "absent", FALSE, IF t = NoTool THEN <<>> ELSE <<t.name>>,
         FALSE, FALSE, FALSE, FALSE, 0)

\* the SDK's answer to a request handler that threw: a JSON-RPC error
SdkErrorResp == Resp(0, "JsonRpcError", "absent", "absent", FALSE, <<>>, FALSE, FALSE, FALSE, TRUE, -32603)

\* ---------------------------------------------------------------------------
\* Pure helpers of the HTTP transport
\* ---------------------------------------------------------------------------

PathEndsWith(path, seg) == Len(path) > 0 /\ path[Len(path)] = seg

PathStartsWith(path, seg) == Len(path) > 0 /\ path[1] = seg

\* path.match(/\/seg\/[a-zA-Z0-9]+/): seg followed by a further segment
PathHasSegmentBefore(path, seg) == \E i \in 1..(Len(path) - 1) : path[i] = seg

\* RateLimitSkip that only lets preflight requests through uncounted
RateLimitSkipPreflightOnly(q) == q.method = "OPTIONS"

\* the `skip` option of the limiter
RateLimitSkip(q) ==
    q.method = "OPTIONS" \/ (q.method = "GET" /\ PathEndsWith(q.path, "health"))

\* a public-endpoint list without the health entry
IsPublicEndpointNoHealth(path) ==
    \/ PathStartsWith(path, "docs")
    \/ PathHasSegmentBefore(path, "batch-status")
    \/ PathHasSegmentBefore(path, "debug")

\* _authMiddleware, first test: public endpoints
IsPublicEndpoint(path) ==
    \/ PathEndsWith(path, "health")
    \/ PathStartsWith(path, "docs")
    \/ (Len(path) >= 3 /\ path[1] = "api" /\ path[2] = "v1" /\ path[3] \in {"batch-status", "debug"})
    \/ PathHasSegmentBefore(path, "batch-status")
    \/ PathHasSegmentBefore(path, "debug")

\* const action = req.query.action || req.body?.action
AllowListAction(q) == IF q.queryAction # "" THEN q.queryAction ELSE q.bodyAction

\* _authMiddleware, second test: public actions of prompt_attributes
IsPublicToolAction(q) ==
    /\ \E i \in 1..(Len(q.path) - 1) : q.path[i] = "tools" /\ q.path[i + 1] = "prompt_attributes"
    /\ AllowListAction(q) \in {"get_default", "get_models_only"}

\* ExtractToken that looks at the Authorization header first
ExtractTokenBearerFirst(q) == IF q.authorization # NoToken THEN q.authorization ELSE q.xAccessToken

\* x-access-token first, then the Authorization header (Bearer prefix stripped)
ExtractToken(q) == IF q.xAccessToken # NoToken THEN q.xAccessToken ELSE q.authorization

apiKeys == {"key"}

\* jwt.verify(token, auth.jwtSecret): the decoded payload, or "throws"
\* (TokenExpiredError, JsonWebTokenError)
JwtVerify(token) ==
    CASE token = "jwt" -> "object_with_userObjId"
      [] token = "jwt_nosub" -> "object"
      [] token = "jwt_str" -> "string"
      [] OTHER -> "throws"

\* the try block of case 'jwt' ends without throwing: jwt.verify returned and
\* not (typeof decoded === 'object' && !('userObjId' in decoded))
JwtVerifies(token) == JwtVerify(token) \in {"object_with_userObjId", "string"}

\* the switch on auth.type: TRUE when next() is reached
TokenAccepted(authType, token) ==
    CASE authType = "apikey" -> token \in apiKeys
      [] authType = "jwt" -> JwtVerifies(token) \/ token \in apiKeys
      [] authType \in {"bearer", "basic"} -> TRUE
      [] OTHER -> FALSE

\* "next" or "401"
AuthDecision(authType, q) ==
    IF IsPublicEndpoint(q.path) \/ IsPublicToolAction(q) THEN "next"
    ELSE IF ExtractToken(q) = NoToken THEN "401"
    ELSE IF TokenAccepted(authType, ExtractToken(q)) THEN "next"
    ELSE "401"

\* the router mounted at basePath "/mcp"
RouteOf(q) ==
    IF Len(q.path) = 2 /\ q.path[1] = "mcp" /\ q.method = "GET" /\ q.path[2] = "health" THEN "health"
    ELSE IF Len(q.path) = 2 /\ q.path[1] = "mcp" /\ q.method = "GET" /\ q.path[2] = "info" THEN "info"
    ELSE IF Len(q.path) = 2 /\ q.path[1] = "mcp" /\ q.method = "POST" /\ q.path[2] = "rpc" THEN "rpc"
    ELSE IF Len(q.path) = 2 /\ q.path[1] = "mcp" /\ q.method = "GET" /\ q.path[2] = "tools" THEN "tools"
    ELSE IF Len(q.path) = 3 /\ q.path[1] = "mcp" /\ q.path[2] = "tools"
            /\ q.method \in {"GET", "POST"} THEN "tool"
    ELSE "none"

\* const input = req.method === 'GET' ? req.query : req.body
ToolInputAction(q) == IF q.method = "GET" THEN q.queryAction ELSE q.bodyAction

\* whether the input the tool receives satisfies the tool's `parameters`
\* schema (example_tool: required: ['action'], action one of the enum)
SatisfiesSchema(q) == q.name = "example_tool" => ToolInputAction(q) \in ExampleToolActions


\* ---------------------------------------------------------------------------
\* State
\* ---------------------------------------------------------------------------

VARIABLES
    cfg,         \* auth part of HttpTransportConfig: [authEnabled, authType]
    now,         \* the clock, in ticks
    store,       \* the limiter's memory store: key -> [hits, resetTime]
    win,         \* per key, what the limiter decided in the current window
    req,         \* the request being handled (NoReq when there is none)
    pc,          \* where its handling stands
    resp,        \* the response the caller received (NoResp before)
    sent,        \* how many responses were written to the caller
    timer,       \* due time of the armed timeout timer, NoTimer when none
    toolRunning, \* tool.execute was called and its promise is pending
    execCalls,   \* calls of tool.execute made for this request
    execStart,   \* the tick at which tool.execute was called
    counted,     \* the limiter counted this request
    lim,         \* the limiter's decision on this request: [decision, fresh, hits]
    thrown,      \* the dispatcher's promise rejected (an exception left it)
    lookedUp,    \* the tool name was looked up in a _tools map
    timedOut,    \* the caller was answered by a timeout
    lateDone,    \* the tool settled after the caller had been answered
    ctx,         \* req.context (with its requestId) is set
    prepared,    \* the JSON-RPC response _handleHttpMessage built
    execImpl,    \* impl of the tool object whose execute was called (0: none)
    auth,        \* what _authMiddleware did: [token, outcome]
    server,      \* the class of the server: "BaseMcpServer" | "HttpMcpServer"
    state,       \* BaseMcpServer._state
    tools,       \* BaseMcpServer._tools
    transports,  \* the HttpTransport objects created so far: [tools, isStarted]
    httpTransport,   \* HttpMcpServer._httpTransport: index in transports, 0 when undefined
    stdioTransport,  \* HttpMcpServer._stdioTransport is set
    stdioOpen,   \* the SDK server is connected to a StdioServerTransport
    calls,       \* the start/stop/restart calls waiting at an await
    ops,         \* how many start/stop/restart calls were made
    trans,       \* the changes of _state made by the last step that made any
    history,     \* the tools registerTool accepted, in call order
    lastReg,     \* the last registerTool call: [tool, outcome]
    requestCount,    \* BaseMcpServer._requestCount
    errorCount,      \* BaseMcpServer._errorCount
    lastError,       \* BaseMcpServer._lastError (NoError when undefined)
    executions,      \* the recordToolExecution calls the metrics collector received
    dispatches,      \* the CallTool dispatches running side by side, by arrival number
    failures         \* the failure messages those dispatches recorded, oldest first

\* the server object: lifecycle, registry, transports
srvVars == <<server, state, tools, transports, httpTransport, stdioTransport, stdioOpen,
             calls, ops, trans, history, lastReg>>

\* the server's statistics
\* the dispatches followed side by side and what they recorded
concVars == <<dispatches, failures>>

statVars == <<requestCount, errorCount, lastError, executions, concVars>>

vars == <<cfg, now, store, win, req, pc, resp, sent, timer, toolRunning, execCalls,
          execStart, counted, lim, thrown, lookedUp, timedOut, lateDone, ctx, prepared,
          execImpl, auth, srvVars, statVars>>

\* how many dispatches are followed side by side
MaxDispatch == 3

DispatchIds == 1 .. MaxDispatch

\* at: "none" (not arrived) | "exec" (at the await of execute) | "done";
\* via: the handler; outcome: "" | "ok" | "fail" (success: false) | "error"
Dispatch(at, via, name, behav, outcome) ==
    [at |-> at, via |-> via, name |-> name, behav |-> behav, outcome |-> outcome]

NoDispatch == Dispatch("none", "", "", "", "")

\* _lastError before any failure
NoError == ""

\* the statistics of a server just constructed
NoStats ==
    /\ requestCount = 0
    /\ errorCount = 0
    /\ lastError = NoError
    /\ executions = <<>>
    /\ dispatches = [i \in DispatchIds |-> NoDispatch]
    /\ failures = <<>>

\* this._metricsCollector.recordToolExecution(name, executionTime, success)
RecordToolExecution(name, success) == Append(executions, [tool |-> name, success |-> success])

NoTimer == -1

Configs ==
    { [authEnabled |-> FALSE, authType |-> "apikey"],
      [authEnabled |-> TRUE, authType |-> "apikey"],
      [authEnabled |-> TRUE, authType |-> "jwt"],
      [authEnabled |-> TRUE, authType |-> "bearer"] }

NoWindow == [hits |-> 0, resetTime |-> 0]

\* decision: "none" | "skipped" | "allowed" | "rejected"; fresh: the key had no
\* running window; hits: the key's count after this request was added
NoLim == [decision |-> "none", fresh |-> FALSE, hits |-> 0]

NoWin == [allowed |-> 0, rejected |-> FALSE, prevRejected |-> FALSE]

\* outcome: "none" (not run) | "public" (let through unauthenticated) |
\* "accepted" | "rejected"; token: the token the middleware extracted
NoAuth == [token |-> NoToken, outcome |-> "none"]

ServerClasses == {"BaseMcpServer", "HttpMcpServer"}

ServerStates == {"stopped", "starting", "running", "stopping", "error"}

\* by: the public method whose call made the change
Transition(from, to, by) == [from |-> from, to |-> to, by |-> by]

NoRegistration == [tool |-> NoTool, outcome |-> "none"]

\* new HttpTransport(config, new Map(this.tools)): _tools, _isStarted
Transport(m, isStarted) == [tools |-> m, isStarted |-> isStarted]

\* the transports holding the port (one at most: a second listen fails)
BoundTransports == {i \in 1..Len(transports) : transports[i].isStarted}

Listening == BoundTransports # {}

\* the _tools map of the HttpTransport that serves the port
httpToolMap ==
    IF Listening THEN transports[CHOOSE i \in BoundTransports : TRUE].tools ELSE <<>>

\* no request is being handled
NoRequest ==
    /\ now = 0
    /\ store = [k \in Keys |-> NoWindow]
    /\ win = [k \in Keys |-> NoWin]
    /\ req = NoReq
    /\ pc = "idle"
    /\ resp = NoResp
    /\ sent = 0
    /\ timer = NoTimer
    /\ toolRunning = FALSE
    /\ execCalls = 0
    /\ execStart = 0
    /\ counted = FALSE
    /\ lim = NoLim
    /\ thrown = FALSE
    /\ lookedUp = FALSE
    /\ timedOut = FALSE
    /\ lateDone = FALSE
    /\ ctx = FALSE
    /\ prepared = "none"
    /\ execImpl = 0
    /\ auth = NoAuth

\* the per-request variables, all at their initial value
Fresh ==
    /\ req' = NoReq
    /\ resp' = NoResp
    /\ sent' = 0
    /\ timer' = NoTimer
    /\ toolRunning' = FALSE
    /\ execCalls' = 0
    /\ execStart' = 0
    /\ counted' = FALSE
    /\ lim' = NoLim
    /\ thrown' = FALSE
    /\ lookedUp' = FALSE
    /\ timedOut' = FALSE
    /\ lateDone' = FALSE
    /\ ctx' = FALSE
    /\ prepared' = "none"
    /\ execImpl' = 0
    /\ auth' = NoAuth

\* a server of either class that registered InitialTools and was started
Init ==
    /\ cfg \in Configs
    /\ NoRequest
    /\ server \in ServerClasses
    /\ state = "running"
    /\ tools = InitialTools
    /\ transports = IF server = "HttpMcpServer" THEN <<Transport(InitialTools, TRUE)>> ELSE <<>>
    /\ httpTransport = IF server = "HttpMcpServer" THEN 1 ELSE 0
    /\ stdioTransport = (server = "HttpMcpServer")
    /\ stdioOpen = TRUE
    /\ calls = {}
    /\ ops = 0
    /\ trans = <<Transition("starting", "running", "start")>>
    /\ history = InitialTools
    /\ lastReg = [tool |-> InitialTools[Len(InitialTools)], outcome |-> "registered"]
    /\ NoStats

\* res.headersSent
headersSent == sent > 0

\* CanSend without the headersSent test
CanSendUnguarded == TRUE

\* the write guard `if (!res.headersSent)` of _handleExecuteTool and of the
\* timeout middleware
CanSend == ~headersSent

\* res.status(..).json(..): the caller receives r
Respond(r) ==
    /\ resp' = r
    /\ sent' = sent + 1

\* a timer is due and its callback has not run yet
TimerDue == timer # NoTimer /\ now >= timer

\* ---------------------------------------------------------------------------
\* Arrival, time
\* ---------------------------------------------------------------------------

\* the requests whose dispatcher touches the server's counters: the CallTool
\* handlers and _handleHttpMessage (HttpTransport's own routes touch none)
CountsRequests(q) == q.entry \in {"stdio_base", "stdio_http"} \/ (q.entry = "http" /\ RouteOf(q) = "rpc")

\* every transport's messages passing through the HTTP authentication gate
FirstStageAllGated(q) == IF q.entry = "http" THEN "limiter" ELSE "auth"

\* where a message is handled first: an HTTP request enters the express
\* middleware chain, a stdio message goes to the SDK server's request handler
FirstStage(q) == IF q.entry = "http" THEN "limiter" ELSE "call"

\* a request arrives on one of the transports
Arrive(q) ==
    /\ pc = "idle"
    /\ q.entry = "http" => (server = "HttpMcpServer" /\ Listening)
    /\ q.entry = "stdio_http" => (server = "HttpMcpServer" /\ stdioOpen)
    /\ q.entry = "stdio_base" => (server = "BaseMcpServer" /\ stdioOpen)
    /\ q.entry = "http" => store[q.ip].hits <= maxRequests + 1
    /\ q.entry = "http" => win[q.ip].allowed <= maxRequests
    /\ CountsRequests(q) => (requestCount < MaxCount /\ errorCount < MaxCount)
    /\ req' = q
    /\ pc' = FirstStage(q)
    /\ UNCHANGED <<srvVars, statVars, execImpl, auth, cfg, now, store, win, resp, sent, timer, toolRunning, execCalls,
                   execStart, counted, lim, thrown, lookedUp, timedOut, lateDone, ctx, prepared>>

\* the setTimeout of a stop()'s race is due
ShutdownTimerDue == \E c \in calls : c.at = "shutdown" /\ now >= c.since + SERVER_SHUTDOWN

\* the clock advances; a due timer runs its callback first
Tick ==
    /\ now < MaxTime
    /\ ~(TimerDue /\ pc \in {"exec", "sent"})
    /\ ~ShutdownTimerDue
    /\ now' = now + 1
    /\ UNCHANGED <<srvVars, statVars, execImpl, auth, cfg, store, win, req, pc, resp, sent, timer, toolRunning, execCalls,
                   execStart, counted, lim, thrown, lookedUp, timedOut, lateDone, ctx, prepared>>

\* ---------------------------------------------------------------------------
\* HttpTransport: middleware chain
\* ---------------------------------------------------------------------------

\* WindowFor with a store that never resets a key
WindowForNoReset(k) == store[k]

\* the window the key's next counted request falls in
WindowFor(k) ==
    IF now >= store[k].resetTime
    THEN [hits |-> 0, resetTime |-> now + windowMs]
    ELSE store[k]

\* the limiter's verdict on a count
OverLimit(hits) == hits > maxRequests

\* express-rate-limit middleware (skip, increment, compare with max)
RateLimiter ==
    /\ pc = "limiter"
    /\ IF RateLimitSkip(req)
       THEN /\ lim' = [NoLim EXCEPT !.decision = "skipped"]
            /\ pc' = "parse"
            /\ UNCHANGED <<store, win, counted, resp, sent>>
       ELSE LET k == req.ip
                fresh == now >= store[k].resetTime
                after == [WindowFor(k) EXCEPT !.hits = @ + 1]
                w == IF fresh
                     THEN [allowed |-> 0, rejected |-> FALSE, prevRejected |-> win[k].rejected]
                     ELSE win[k]
            IN  /\ store' = [store EXCEPT ![k] = after]
                /\ counted' = TRUE
                /\ IF OverLimit(after.hits)
                   THEN /\ lim' = [decision |-> "rejected", fresh |-> fresh, hits |-> after.hits]
                        /\ win' = [win EXCEPT ![k] = [w EXCEPT !.rejected = TRUE]]
                        /\ Respond(RateLimitedResp)
                        /\ pc' = "sent"
                   ELSE /\ lim' = [decision |-> "allowed", fresh |-> fresh, hits |-> after.hits]
                        /\ win' = [win EXCEPT ![k] = [w EXCEPT !.allowed = @ + 1]]
                        /\ pc' = "parse"
                        /\ UNCHANGED <<resp, sent>>
    /\ UNCHANGED <<srvVars, statVars, execImpl, auth, cfg, now, req, timer, toolRunning, execCalls, execStart, thrown,
                   lookedUp, timedOut, lateDone, ctx, prepared>>

\* express.json(): a body that does not parse goes to the global error handler
ParseBody ==
    /\ pc = "parse"
    /\ IF req.bodyOk
       THEN pc' = "guard" /\ UNCHANGED <<resp, sent>>
       ELSE Respond(ErrorHandlerResp(400, ctx)) /\ pc' = "sent"
    /\ UNCHANGED <<srvVars, statVars, execImpl, auth, cfg, now, store, win, req, timer, toolRunning, execCalls, execStart,
                   counted, lim, thrown, lookedUp, timedOut, lateDone, ctx, prepared>>

\* request timeout middleware: res.setTimeout(security.timeout, ...)
TimeoutGuard ==
    /\ pc = "guard"
    /\ timer' = now + securityTimeout
    /\ pc' = "context"
    /\ UNCHANGED <<srvVars, statVars, execImpl, auth, cfg, now, store, win, req, resp, sent, toolRunning, execCalls, execStart,
                   counted, lim, thrown, lookedUp, timedOut, lateDone, ctx, prepared>>

\* _createRequestContext
CreateRequestContext ==
    /\ pc = "context"
    /\ ctx' = TRUE
    /\ pc' = "auth"
    /\ UNCHANGED <<srvVars, statVars, execImpl, auth, cfg, now, store, win, req, resp, sent, timer, toolRunning, execCalls,
                   execStart, counted, lim, thrown, lookedUp, timedOut, lateDone, prepared>>

\* whether _setupMiddleware mounts _authMiddleware
AuthMounted == cfg.authEnabled

\* _authMiddleware (when auth.enabled mounted it)
AuthMiddleware ==
    /\ pc = "auth"
    /\ IF ~AuthMounted \/ AuthDecision(cfg.authType, req) = "next"
       THEN pc' = "route" /\ UNCHANGED <<resp, sent>>
       ELSE Respond(UnauthorizedResp) /\ pc' = "sent"
    /\ auth' = IF ~AuthMounted THEN NoAuth
               ELSE IF IsPublicEndpoint(req.path) \/ IsPublicToolAction(req)
               THEN [token |-> NoToken, outcome |-> "public"]
               ELSE [token |-> ExtractToken(req),
                     outcome |-> IF AuthDecision(cfg.authType, req) = "next"
                                 THEN "accepted" ELSE "rejected"]
    /\ UNCHANGED <<srvVars, statVars, execImpl, cfg, now, store, win, req, timer, toolRunning, execCalls, execStart,
                   counted, lim, thrown, lookedUp, timedOut, lateDone, ctx, prepared>>


\* ---------------------------------------------------------------------------
\* HttpTransport: route handlers
\* ---------------------------------------------------------------------------

\* the names in the HttpTransport's _tools map (the copy HttpMcpServer handed it)
httpTools == SetOf(MapKeys(httpToolMap))

\* the names in the server's own _tools map
serverTools == SetOf(MapKeys(tools))

\* _handleHealth
HandleHealth ==
    /\ pc = "route" /\ RouteOf(req) = "health"
    /\ Respond(HealthResp)
    /\ pc' = "sent"
    /\ UNCHANGED <<srvVars, statVars, execImpl, auth, cfg, now, store, win, req, timer, toolRunning, execCalls, execStart,
                   counted, lim, thrown, lookedUp, timedOut, lateDone, ctx, prepared>>

\* _handleInfo
HandleInfo ==
    /\ pc = "route" /\ RouteOf(req) = "info"
    /\ Respond(InfoResp)
    /\ pc' = "sent"
    /\ UNCHANGED <<srvVars, statVars, execImpl, auth, cfg, now, store, win, req, timer, toolRunning, execCalls, execStart,
                   counted, lim, thrown, lookedUp, timedOut, lateDone, ctx, prepared>>

\* _handleListTools
HandleListTools ==
    /\ pc = "route" /\ RouteOf(req) = "tools"
    /\ Respond(ListToolsResp(MapKeys(httpToolMap)))
    /\ pc' = "sent"
    /\ UNCHANGED <<srvVars, statVars, execImpl, auth, cfg, now, store, win, req, timer, toolRunning, execCalls, execStart,
                   counted, lim, thrown, lookedUp, timedOut, lateDone, ctx, prepared>>

\* the 404 handler of _setupErrorHandling
NotFoundHandler ==
    /\ pc = "route" /\ RouteOf(req) = "none"
    /\ Respond(RouteNotFoundResp)
    /\ pc' = "sent"
    /\ UNCHANGED <<srvVars, statVars, execImpl, auth, cfg, now, store, win, req, timer, toolRunning, execCalls, execStart,
                   counted, lim, thrown, lookedUp, timedOut, lateDone, ctx, prepared>>

\* _handleJsonRpc.  A well-formed message is handed to onmessage
\* (HttpMcpServer._handleHttpMessage, not awaited), which runs up to its first
\* await; then 202 is written.
HandleJsonRpc ==
    /\ pc = "route" /\ RouteOf(req) = "rpc"
    /\ IF req.jsonrpc = "" \/ req.rpcMethod = ""
       THEN /\ Respond(InvalidRequestResp)
            /\ UNCHANGED <<toolRunning, execCalls, execStart, thrown, lookedUp, prepared>>
       ELSE /\ Respond(AcceptedResp)
            /\ CASE req.rpcMethod = "tools/list" ->
                      /\ prepared' = "ToolsList"
                      /\ UNCHANGED <<toolRunning, execCalls, execStart, thrown, lookedUp>>
                 [] req.rpcMethod = "tools/call" /\ req.name \notin serverTools ->
                      \* _executeTool throws; _handleHttpMessage logs it
                      /\ prepared' = "Threw"
                      /\ thrown' = TRUE
                      /\ lookedUp' = TRUE
                      /\ UNCHANGED <<toolRunning, execCalls, execStart>>
                 [] req.rpcMethod = "tools/call" /\ req.name \in serverTools ->
                      /\ lookedUp' = TRUE
                      /\ toolRunning' = TRUE
                      /\ execCalls' = execCalls + 1
                      /\ execStart' = now
                      /\ UNCHANGED <<thrown, prepared>>
                 [] OTHER ->
                      /\ prepared' = "MethodNotFound"
                      /\ UNCHANGED <<toolRunning, execCalls, execStart, thrown, lookedUp>>
    /\ pc' = "sent"
    /\ execImpl' = IF req.jsonrpc # "" /\ req.rpcMethod = "tools/call"
                   THEN MapGet(tools, req.name).impl ELSE 0
    /\ requestCount' = IF req.jsonrpc # "" /\ req.rpcMethod = "tools/call" /\ req.name \in serverTools
                       THEN requestCount + 1 ELSE requestCount
    /\ UNCHANGED <<srvVars, errorCount, lastError, executions, auth, cfg, now, store, win, req, timer, counted, lim, timedOut, lateDone, ctx>>
    /\ UNCHANGED concVars

\* _handleExecuteTool up to `await tool.execute(input)`
HandleExecuteTool ==
    /\ pc = "route" /\ RouteOf(req) = "tool"
    /\ lookedUp' = TRUE
    /\ IF req.name \notin httpTools
       THEN /\ Respond(ToolNotFoundResp(MapKeys(httpToolMap)))
            /\ pc' = "sent"
            /\ UNCHANGED <<toolRunning, execCalls, execStart>>
       ELSE /\ toolRunning' = TRUE
            /\ execCalls' = execCalls + 1
            /\ execStart' = now
            /\ pc' = "exec"
            /\ UNCHANGED <<resp, sent>>
    /\ execImpl' = MapGet(httpToolMap, req.name).impl
    /\ UNCHANGED <<srvVars, statVars, auth, cfg, now, store, win, req, timer, counted, lim, thrown, timedOut,
                   lateDone, ctx, prepared>>

\* _handleExecuteTool after the await: the tool settled, sooner or later
HttpToolSettles ==
    /\ req.entry = "http" /\ RouteOf(req) = "tool"
    /\ toolRunning
    /\ toolRunning' = FALSE
    /\ LET ret == ToolReturn(req.name, req.behav)
           r == IF ret = "throw" THEN ExecutionFailedResp ELSE HttpToolResultResp(ret)
       IN  IF CanSend
           THEN Respond(r)
           ELSE UNCHANGED <<resp, sent>>
    /\ lateDone' = (pc # "exec")
    /\ pc' = IF pc = "exec" THEN "sent" ELSE pc
    /\ UNCHANGED <<srvVars, statVars, execImpl, auth, cfg, now, store, win, req, timer, execCalls, execStart, counted, lim,
                   thrown, lookedUp, timedOut, ctx, prepared>>

\* the catch block of HttpMcpServer._executeTool, entered when execute rejected
ExecuteToolCatch(rejected) ==
    IF rejected
    THEN errorCount' = errorCount + 1 /\ lastError' = "tool error"
    ELSE UNCHANGED <<errorCount, lastError>>

\* _executeTool after its await, called from _handleHttpMessage: the result
\* (or the ToolExecutionError) stays in the server
RpcToolSettles ==
    /\ req.entry = "http" /\ RouteOf(req) = "rpc"
    /\ toolRunning
    /\ toolRunning' = FALSE
    /\ LET ret == ToolReturn(req.name, req.behav)
       IN  /\ prepared' = IF ret = "throw" THEN "Threw" ELSE "CallResult"
           /\ thrown' = (ret = "throw")
           /\ ExecuteToolCatch(ret = "throw")
    /\ lateDone' = TRUE
    /\ UNCHANGED <<srvVars, requestCount, executions, execImpl, auth, cfg, now, store, win, req, pc, resp, sent, timer, execCalls, execStart,
                   counted, lim, lookedUp, timedOut, ctx>>
    /\ UNCHANGED concVars

\* the callback of res.setTimeout
ResponseTimeout ==
    /\ req.entry = "http"
    /\ pc \in {"exec", "sent"}
    /\ TimerDue
    /\ timer' = NoTimer
    /\ IF CanSend
       THEN /\ Respond(RequestTimeoutResp)
            /\ timedOut' = TRUE
            /\ pc' = "sent"
       ELSE UNCHANGED <<resp, sent, timedOut, pc>>
    /\ UNCHANGED <<srvVars, statVars, execImpl, auth, cfg, now, store, win, req, toolRunning, execCalls, execStart, counted,
                   lim, thrown, lookedUp, lateDone, ctx, prepared>>

\* the response's 'finish' event: with skipSuccessfulRequests the limiter
\* takes back the hit of a request answered with a status below 400
Finish ==
    /\ req.entry = "http"
    /\ pc = "sent"
    /\ pc' = "done"
    /\ store' = IF counted /\ resp.status < 400 /\ store[req.ip].hits > 0
                THEN [store EXCEPT ![req.ip].hits = @ - 1]
                ELSE store
    /\ UNCHANGED <<srvVars, statVars, execImpl, auth, cfg, now, win, req, resp, sent, timer, toolRunning, execCalls, execStart,
                   counted, lim, thrown, lookedUp, timedOut, lateDone, ctx, prepared>>

\* ---------------------------------------------------------------------------
\* Stdio: the CallTool request handlers
\* ---------------------------------------------------------------------------

\* the catch block of BaseMcpServer's CallTool handler
BaseCatch(errorMessage) ==
    /\ errorCount' = errorCount + 1
    /\ lastError' = errorMessage
    /\ executions' = RecordToolExecution(req.name, FALSE)

\* BaseMcpServer's handler up to the Promise.race
BaseCallTool ==
    /\ pc = "call" /\ req.entry = "stdio_base" /\ req.rpcMethod = "tools/call"
    /\ lookedUp' = TRUE
    /\ requestCount' = requestCount + 1
    /\ IF req.name \notin serverTools
       THEN /\ Respond(BaseErrorResp)
            /\ BaseCatch("Tool not found")
            /\ pc' = "done"
            /\ UNCHANGED <<toolRunning, execCalls, execStart, timer>>
       ELSE /\ toolRunning' = TRUE
            /\ execCalls' = execCalls + 1
            /\ execStart' = now
            /\ timer' = now + TOOL_EXECUTION
            /\ pc' = "exec"
            /\ UNCHANGED <<resp, sent, errorCount, lastError, executions>>
    /\ execImpl' = MapGet(tools, req.name).impl
    /\ UNCHANGED <<srvVars, auth, cfg, now, store, win, req, counted, lim, thrown, timedOut, lateDone,
                   ctx, prepared>>
    /\ UNCHANGED concVars

\* a handler that invokes execute a second time when the first attempt failed
BaseToolSettlesRetrying ==
    /\ req.entry = "stdio_base"
    /\ toolRunning
    /\ LET ret == ToolReturn(req.name, req.behav)
       IN  IF pc = "exec" /\ ret # "ok" /\ execCalls < 2
           THEN /\ execCalls' = execCalls + 1
                /\ UNCHANGED <<toolRunning, resp, sent, pc, lateDone>>
           ELSE /\ toolRunning' = FALSE
                /\ UNCHANGED execCalls
                /\ IF pc = "exec"
                   THEN /\ Respond(IF isToolResult(ret) THEN BaseToolResultResp(ret) ELSE BaseErrorResp)
                        /\ pc' = "done"
                        /\ UNCHANGED lateDone
                   ELSE /\ lateDone' = TRUE
                        /\ UNCHANGED <<resp, sent, pc>>
    /\ UNCHANGED <<srvVars, statVars, execImpl, auth, cfg, now, store, win, req, timer, execStart, counted, lim,
                   thrown, lookedUp, timedOut, ctx, prepared>>

\* the tool settles; the race takes it only if the timer has not won
BaseToolSettles ==
    /\ req.entry = "stdio_base"
    /\ toolRunning
    /\ toolRunning' = FALSE
    /\ LET ret == ToolReturn(req.name, req.behav)
       IN  IF pc = "exec"
           THEN /\ Respond(IF isToolResult(ret) THEN BaseToolResultResp(ret) ELSE BaseErrorResp)
                /\ IF isToolResult(ret)
                   THEN /\ executions' = RecordToolExecution(req.name, ret = "ok")
                        /\ UNCHANGED <<errorCount, lastError>>
                   ELSE BaseCatch(IF ret = "throw" THEN "tool error"
                                  ELSE "Tool returned invalid result format")
                /\ pc' = "done"
                /\ UNCHANGED lateDone
           ELSE /\ lateDone' = TRUE
                /\ UNCHANGED <<resp, sent, pc, errorCount, lastError, executions>>
    /\ UNCHANGED <<srvVars, requestCount, execImpl, auth, cfg, now, store, win, req, timer, execCalls, execStart,
                   counted, lim, thrown, lookedUp, timedOut, ctx, prepared>>
    /\ UNCHANGED concVars

\* the setTimeout of the race
RaceTimeout ==
    /\ req.entry = "stdio_base"
    /\ pc \in {"exec", "done"}
    /\ TimerDue
    /\ timer' = NoTimer
    /\ IF pc = "exec"
       THEN /\ Respond(BaseErrorResp)
            /\ BaseCatch("Tool execution timeout")
            /\ timedOut' = TRUE
            /\ pc' = "done"
       ELSE UNCHANGED <<resp, sent, timedOut, pc, errorCount, lastError, executions>>
    /\ UNCHANGED <<srvVars, requestCount, execImpl, auth, cfg, now, store, win, req, toolRunning, execCalls, execStart, counted,
                   lim, thrown, lookedUp, lateDone, ctx, prepared>>
    /\ UNCHANGED concVars

\* HttpMcpServer's handler: _executeTool up to its await
HttpSrvCallTool ==
    /\ pc = "call" /\ req.entry = "stdio_http" /\ req.rpcMethod = "tools/call"
    /\ lookedUp' = TRUE
    /\ IF req.name \notin serverTools
       THEN /\ thrown' = TRUE
            /\ Respond(SdkErrorResp)
            /\ pc' = "done"
            /\ UNCHANGED <<toolRunning, execCalls, execStart, requestCount>>
       ELSE /\ toolRunning' = TRUE
            /\ execCalls' = execCalls + 1
            /\ execStart' = now
            /\ requestCount' = requestCount + 1
            /\ pc' = "exec"
            /\ UNCHANGED <<resp, sent, thrown>>
    /\ execImpl' = MapGet(tools, req.name).impl
    /\ UNCHANGED <<srvVars, errorCount, lastError, executions, auth, cfg, now, store, win, req, timer, counted, lim, timedOut, lateDone,
                   ctx, prepared>>
    /\ UNCHANGED concVars

\* _executeTool after its await
HttpSrvToolSettles ==
    /\ req.entry = "stdio_http"
    /\ toolRunning
    /\ toolRunning' = FALSE
    /\ LET ret == ToolReturn(req.name, req.behav)
       IN  /\ thrown' = (ret = "throw")
           /\ Respond(IF ret = "throw" THEN SdkErrorResp ELSE CallResultResp(ret))
           /\ ExecuteToolCatch(ret = "throw")
    /\ pc' = "done"
    /\ UNCHANGED <<srvVars, requestCount, executions, execImpl, auth, cfg, now, store, win, req, timer, execCalls, execStart, counted, lim,
                   lookedUp, timedOut, lateDone, ctx, prepared>>
    /\ UNCHANGED concVars

\* the request is over; the next one can be followed
Release ==
    /\ pc = "done"
    /\ pc' = "idle"
    /\ Fresh
    /\ UNCHANGED <<srvVars, statVars, cfg, now, store, win>>

\* ---------------------------------------------------------------------------
\* Tool calls side by side: each handler invocation runs to its await, the
\* invocations interleave at the awaits
\* ---------------------------------------------------------------------------

\* the tool calls arriving: a tool that succeeds, reports success: false,
\* throws, or outlasts the execution timeout; a second tool; an unknown name
DispatchInputs ==
    { [name |-> "echo", behav |-> b] : b \in Behavs \cup {"hang"} }
    \cup { [name |-> "health", behav |-> "throw"], [name |-> UnknownTool, behav |-> "ok"] }

\* error.message of what a tool threw
ThrownMessage(name) == IF name = "echo" THEN "tool error" ELSE "health check failed"

\* a catch block keeping the first message it ever stored
StoreFirstError(previous, errorMessage) ==
    IF previous = NoError THEN errorMessage ELSE previous

\* this._lastError = errorMessage
StoreLastError(previous, errorMessage) == errorMessage

\* invocations are numbered in the order they arrive
NextToArrive(i) ==
    /\ dispatches[i].at = "none"
    /\ i > 1 => dispatches[i - 1].at # "none"

\* the catch block of a handler (BaseMcpServer's also records the execution)
DispatchCatch(name, errorMessage, recordsExecution) ==
    /\ errorCount' = errorCount + 1
    /\ lastError' = StoreLastError(lastError, errorMessage)
    /\ failures' = Append(failures, errorMessage)
    /\ executions' = IF recordsExecution
                     THEN RecordToolExecution(name, FALSE)
                     ELSE executions

\* BaseMcpServer's CallTool handler up to the Promise.race
CallToolBegins(i, d) ==
    /\ server = "BaseMcpServer" /\ stdioOpen
    /\ NextToArrive(i)
    /\ requestCount' = requestCount + 1
    /\ IF d.name \notin serverTools
       THEN /\ dispatches' = [dispatches EXCEPT ![i] = Dispatch("done", "CallTool", d.name, d.behav, "error")]
            /\ DispatchCatch(d.name, "Tool not found", TRUE)
       ELSE /\ dispatches' = [dispatches EXCEPT ![i] = Dispatch("exec", "CallTool", d.name, d.behav, "")]
            /\ UNCHANGED <<errorCount, lastError, failures, executions>>
    /\ UNCHANGED <<srvVars, cfg, now, store, win, req, pc, resp, sent, timer, toolRunning, execCalls,
                   execStart, counted, lim, thrown, lookedUp, timedOut, lateDone, ctx, prepared,
                   execImpl, auth>>

\* BaseMcpServer's CallTool handler after the Promise.race settled
CallToolSettles(i) ==
    /\ dispatches[i].at = "exec" /\ dispatches[i].via = "CallTool"
    /\ LET d == dispatches[i]
           ret == ToolReturn(d.name, d.behav)
       IN  IF isToolResult(ret)
           THEN /\ executions' = RecordToolExecution(d.name, ret = "ok")
                /\ dispatches' = [dispatches EXCEPT ![i] = [d EXCEPT !.at = "done", !.outcome = ret]]
                /\ UNCHANGED <<errorCount, lastError, failures>>
           ELSE /\ DispatchCatch(d.name, CASE ret = "throw" -> ThrownMessage(d.name)
                                      [] ret = "hang" -> "Tool execution timeout"
                                      [] OTHER -> "Tool returned invalid result format", TRUE)
                /\ dispatches' = [dispatches EXCEPT ![i] = [d EXCEPT !.at = "done", !.outcome = "error"]]
    /\ UNCHANGED <<srvVars, requestCount, cfg, now, store, win, req, pc, resp, sent, timer, toolRunning,
                   execCalls, execStart, counted, lim, thrown, lookedUp, timedOut, lateDone, ctx,
                   prepared, execImpl, auth>>

\* this._server.onerror: the SDK server reports an error of its own
OnError ==
    /\ server = "BaseMcpServer" /\ stdioOpen
    /\ Len(failures) < MaxDispatch
    /\ errorCount' = errorCount + 1
    /\ lastError' = StoreLastError(lastError, "server error")
    /\ failures' = Append(failures, "server error")
    /\ UNCHANGED <<srvVars, requestCount, executions, dispatches, cfg, now, store, win, req, pc, resp,
                   sent, timer, toolRunning, execCalls, execStart, counted, lim, thrown, lookedUp,
                   timedOut, lateDone, ctx, prepared, execImpl, auth>>

\* HttpMcpServer._executeTool up to its await
ExecuteToolBegins(i, d) ==
    /\ server = "HttpMcpServer" /\ stdioOpen
    /\ NextToArrive(i)
    /\ d.behav # "hang"
    /\ IF d.name \notin serverTools
       THEN /\ dispatches' = [dispatches EXCEPT ![i] = Dispatch("done", "_executeTool", d.name, d.behav, "error")]
            /\ UNCHANGED requestCount
       ELSE /\ dispatches' = [dispatches EXCEPT ![i] = Dispatch("exec", "_executeTool", d.name, d.behav, "")]
            /\ requestCount' = requestCount + 1
    /\ UNCHANGED <<srvVars, errorCount, lastError, failures, executions, cfg, now, store, win, req, pc,
                   resp, sent, timer, toolRunning, execCalls, execStart, counted, lim, thrown,
                   lookedUp, timedOut, lateDone, ctx, prepared, execImpl, auth>>

\* HttpMcpServer._executeTool after its await
ExecuteToolSettles(i) ==
    /\ dispatches[i].at = "exec" /\ dispatches[i].via = "_executeTool"
    /\ LET d == dispatches[i]
           ret == ToolReturn(d.name, d.behav)
       IN  IF ret = "throw"
           THEN /\ DispatchCatch(d.name, ThrownMessage(d.name), FALSE)
                /\ dispatches' = [dispatches EXCEPT ![i] = [d EXCEPT !.at = "done", !.outcome = "error"]]
           ELSE /\ dispatches' = [dispatches EXCEPT ![i] =
                                    [d EXCEPT !.at = "done", !.outcome = IF ret = "ok" THEN "ok" ELSE "fail"]]
                /\ UNCHANGED <<errorCount, lastError, failures, executions>>
    /\ UNCHANGED <<srvVars, requestCount, cfg, now, store, win, req, pc, resp, sent, timer, toolRunning,
                   execCalls, execStart, counted, lim, thrown, lookedUp, timedOut, lateDone, ctx,
                   prepared, execImpl, auth>>

\* HttpTransport._handleExecuteTool up to its await
RouteToolBegins(i, d) ==
    /\ server = "HttpMcpServer" /\ Listening
    /\ NextToArrive(i)
    /\ d.behav # "hang"
    /\ dispatches' = [dispatches EXCEPT ![i] =
                        IF d.name \notin httpTools
                        THEN Dispatch("done", "_handleExecuteTool", d.name, d.behav, "error")
                        ELSE Dispatch("exec", "_handleExecuteTool", d.name, d.behav, "")]
    /\ UNCHANGED <<srvVars, requestCount, errorCount, lastError, failures, executions, cfg, now, store,
                   win, req, pc, resp, sent, timer, toolRunning, execCalls, execStart, counted, lim,
                   thrown, lookedUp, timedOut, lateDone, ctx, prepared, execImpl, auth>>

\* HttpTransport._handleExecuteTool after its await
RouteToolSettles(i) ==
    /\ dispatches[i].at = "exec" /\ dispatches[i].via = "_handleExecuteTool"
    /\ LET d == dispatches[i]
           ret == ToolReturn(d.name, d.behav)
       IN  dispatches' = [dispatches EXCEPT ![i] =
                            [d EXCEPT !.at = "done",
                                      !.outcome = CASE ret = "ok" -> "ok" [] ret = "fail" -> "fail"
                                                  [] OTHER -> "error"]]
    /\ UNCHANGED <<srvVars, requestCount, errorCount, lastError, failures, executions, cfg, now, store,
                   win, req, pc, resp, sent, timer, toolRunning, execCalls, execStart, counted, lim,
                   thrown, lookedUp, timedOut, lateDone, ctx, prepared, execImpl, auth>>

\* ---------------------------------------------------------------------------
\* Registry: registerTool, getTool, listTools, the ListTools handlers
\* ---------------------------------------------------------------------------

\* the tool objects handed to registerTool: two implementations under one
\* name, a second name, an empty name, a tool without `parameters`, an
\* object whose `execute` is not a function
RegistrationInputs ==
    { Tool("echo", 1, TRUE, TRUE, TRUE), Tool("echo", 2, TRUE, TRUE, TRUE),
      Tool("example_tool", 1, TRUE, TRUE, TRUE), Tool("", 1, TRUE, TRUE, TRUE),
      Tool("noschema", 1, TRUE, TRUE, FALSE), Tool("broken", 1, TRUE, FALSE, TRUE) }

\* registerTool(tool)
RegisterTool(t) ==
    /\ Len(history) < MaxRegs
    /\ IF ~isMcpTool(t)
       THEN \* throw new ValidationError('Invalid tool: must implement McpTool interface')
            /\ lastReg' = [tool |-> t, outcome |-> "ValidationError"]
            /\ UNCHANGED <<tools, history>>
       ELSE /\ tools' = MapSet(tools, t)
            /\ history' = Append(history, t)
            /\ lastReg' = [tool |-> t, outcome |-> "registered"]
    /\ UNCHANGED <<server, state, transports, httpTransport, stdioTransport, stdioOpen,
                   calls, ops, trans>>
    /\ UNCHANGED <<cfg, now, store, win, req, pc, resp, sent, timer, toolRunning, execCalls,
                   execStart, counted, lim, thrown, lookedUp, timedOut, lateDone, ctx,
                   prepared, execImpl, auth, statVars>>

\* getTool(name)
GetTool ==
    /\ pc = "call" /\ req.entry = "api" /\ req.rpcMethod = "getTool"
    /\ Respond(GetToolResult(MapGet(tools, req.name)))
    /\ pc' = "done"
    /\ UNCHANGED <<srvVars, statVars, execImpl, auth, cfg, now, store, win, req, timer, toolRunning,
                   execCalls, execStart, counted, lim, thrown, lookedUp, timedOut, lateDone,
                   ctx, prepared>>

\* getHealth: the checks it computes; the process's memory use and the
\* collector's average response time come from outside the server object
HealthChecks(memory, performance) ==
    [server |-> IF state = "running" THEN "pass" ELSE "fail",
     memory |-> memory,
     tools |-> IF Len(tools) > 0 THEN "pass" ELSE "warn",
     performance |-> performance]

\* getHealth()
GetHealth ==
    /\ pc = "call" /\ req.entry = "api" /\ req.rpcMethod = "getHealth"
    /\ \E memory \in CheckStatuses, performance \in CheckStatuses :
          Respond(HealthCheckResult(HealthChecks(memory, performance)))
    /\ pc' = "done"
    /\ UNCHANGED <<srvVars, statVars, execImpl, auth, cfg, now, store, win, req, timer, toolRunning,
                   execCalls, execStart, counted, lim, thrown, lookedUp, timedOut, lateDone,
                   ctx, prepared>>

\* listTools()
ListTools ==
    /\ pc = "call" /\ req.entry = "api" /\ req.rpcMethod = "listTools"
    /\ Respond(ToolsListResult(MapKeys(tools)))
    /\ pc' = "done"
    /\ UNCHANGED <<srvVars, statVars, execImpl, auth, cfg, now, store, win, req, timer, toolRunning,
                   execCalls, execStart, counted, lim, thrown, lookedUp, timedOut, lateDone,
                   ctx, prepared>>

\* BaseMcpServer's ListTools request handler
BaseListTools ==
    /\ pc = "call" /\ req.entry = "stdio_base" /\ req.rpcMethod = "tools/list"
    /\ Respond(ToolsListResult(MapKeys(tools)))
    /\ pc' = "done"
    /\ UNCHANGED <<srvVars, statVars, execImpl, auth, cfg, now, store, win, req, timer, toolRunning,
                   execCalls, execStart, counted, lim, thrown, lookedUp, timedOut, lateDone,
                   ctx, prepared>>

\* HttpMcpServer's ListTools request handler
HttpSrvListTools ==
    /\ pc = "call" /\ req.entry = "stdio_http" /\ req.rpcMethod = "tools/list"
    /\ Respond(ToolsListResult(MapKeys(tools)))
    /\ pc' = "done"
    /\ UNCHANGED <<srvVars, statVars, execImpl, auth, cfg, now, store, win, req, timer, toolRunning,
                   execCalls, execStart, counted, lim, thrown, lookedUp, timedOut, lateDone,
                   ctx, prepared>>

\* ---------------------------------------------------------------------------
\* Lifecycle: start, stop, restart of BaseMcpServer and HttpMcpServer
\* ---------------------------------------------------------------------------

\* A call of an async method that waits at an await.
\*   id: which call; by: the public method the caller invoked;
\*   at: the await it waits at
\*         "connect"  BaseMcpServer.start: await this._server.connect(transport)
\*         "shutdown" BaseMcpServer.stop: await Promise.race([close, timeout])
\*         "listen"   HttpMcpServer._startHttpTransport: await this._httpTransport.start()
\*         "stdio"    HttpMcpServer._startStdioTransport: await this._mcpServer.connect(..)
\*         "close"    HttpMcpServer.stop: await this._httpTransport.close()
\*         "stopped"  restart: await this.stop() has settled, this.start() comes next
\*   tr: the HttpTransport object the call works on (index in transports, 0 for none)
\*   since: the tick at which the call began to wait
Call(id, by, at, tr, since) == [id |-> id, by |-> by, at |-> at, tr |-> tr, since |-> since]

\* _setState(newState), recorded when it changes the state
Changes(from, to, by) == IF from = to THEN <<>> ELSE <<Transition(from, to, by)>>

\* the synchronous part of start(), entered by `by`, as call `id`
BeginStart(id, by, others) ==
    IF server = "BaseMcpServer"
    THEN IF state = "running"
         THEN \* 'Server already running'
              /\ calls' = others
              /\ UNCHANGED <<state, trans, transports, httpTransport>>
         ELSE /\ state' = "starting"
              /\ trans' = Changes(state, "starting", by)
              /\ calls' = others \cup {Call(id, by, "connect", 0, now)}
              /\ UNCHANGED <<transports, httpTransport>>
    ELSE /\ state' = "starting"
         /\ trans' = Changes(state, "starting", by)
         /\ transports' = Append(transports, Transport(tools, FALSE))
         /\ httpTransport' = Len(transports) + 1
         /\ calls' = others \cup {Call(id, by, "listen", Len(transports) + 1, now)}

\* start()
Start ==
    /\ ops < MaxOps
    /\ ops' = ops + 1
    /\ BeginStart(ops + 1, "start", calls)
    /\ UNCHANGED <<tools, stdioTransport, stdioOpen, history, lastReg, server>>
    /\ UNCHANGED <<cfg, now, store, win, req, pc, resp, sent, timer, toolRunning, execCalls,
                   execStart, counted, lim, thrown, lookedUp, timedOut, lateDone, ctx,
                   prepared, execImpl, auth, statVars>>

\* the synchronous part of stop(), entered by `by`, as call `id`
BeginStop(id, by, others) ==
    IF server = "BaseMcpServer"
    THEN IF state = "stopped"
         THEN \* 'Server already stopped'
              /\ calls' = IF by = "restart" THEN others \cup {Call(id, by, "stopped", 0, now)}
                          ELSE others
              /\ UNCHANGED <<state, trans, httpTransport, stdioTransport>>
         ELSE /\ state' = "stopping"
              /\ trans' = Changes(state, "stopping", by)
              /\ calls' = others \cup {Call(id, by, "shutdown", 0, now)}
              /\ UNCHANGED <<httpTransport, stdioTransport>>
    ELSE IF httpTransport # 0
         THEN /\ state' = "stopping"
              /\ trans' = Changes(state, "stopping", by)
              /\ calls' = others \cup {Call(id, by, "close", httpTransport, now)}
              /\ UNCHANGED <<httpTransport, stdioTransport>>
         ELSE \* no transport to close: stop() runs to its end without waiting
              /\ state' = "stopped"
              /\ trans' = Changes(state, "stopping", by) \o Changes("stopping", "stopped", by)
              /\ stdioTransport' = FALSE
              /\ calls' = IF by = "restart" THEN others \cup {Call(id, by, "stopped", 0, now)}
                          ELSE others
              /\ UNCHANGED httpTransport

\* stop()
Stop ==
    /\ ops < MaxOps
    /\ ops' = ops + 1
    /\ BeginStop(ops + 1, "stop", calls)
    /\ UNCHANGED <<tools, transports, stdioOpen, history, lastReg, server>>
    /\ UNCHANGED <<cfg, now, store, win, req, pc, resp, sent, timer, toolRunning, execCalls,
                   execStart, counted, lim, thrown, lookedUp, timedOut, lateDone, ctx,
                   prepared, execImpl, auth, statVars>>

\* restart(): await this.stop(); await this.start()
Restart ==
    /\ ops < MaxOps
    /\ ops' = ops + 1
    /\ BeginStop(ops + 1, "restart", calls)
    /\ UNCHANGED <<tools, transports, stdioOpen, history, lastReg, server>>
    /\ UNCHANGED <<cfg, now, store, win, req, pc, resp, sent, timer, toolRunning, execCalls,
                   execStart, counted, lim, thrown, lookedUp, timedOut, lateDone, ctx,
                   prepared, execImpl, auth, statVars>>

\* restart() after its stop() has settled: this.start()
RestartStarts ==
    /\ \E c \in calls :
          /\ c.at = "stopped"
          /\ BeginStart(c.id, "restart", calls \ {c})
    /\ UNCHANGED <<tools, stdioTransport, stdioOpen, history, lastReg, server, ops>>
    /\ UNCHANGED <<cfg, now, store, win, req, pc, resp, sent, timer, toolRunning, execCalls,
                   execStart, counted, lim, thrown, lookedUp, timedOut, lateDone, ctx,
                   prepared, execImpl, auth, statVars>>

\* BaseMcpServer.start after `await this._server.connect(transport)`
BaseStartConnected ==
    /\ \E c \in calls :
          /\ c.at = "connect"
          /\ calls' = calls \ {c}
          /\ trans' = Changes(state, "running", c.by)
    /\ stdioOpen' = TRUE
    /\ state' = "running"
    /\ UNCHANGED <<tools, transports, httpTransport, stdioTransport, history, lastReg,
                   server, ops>>
    /\ UNCHANGED <<cfg, now, store, win, req, pc, resp, sent, timer, toolRunning, execCalls,
                   execStart, counted, lim, thrown, lookedUp, timedOut, lateDone, ctx,
                   prepared, execImpl, auth, statVars>>

\* a start() whose await rejected: the catch block (connect failed, the port
\* is taken, the stdio connection failed)
StartFails ==
    /\ \E c \in calls :
          /\ c.at \in {"connect", "listen", "stdio"}
          /\ calls' = calls \ {c}
          /\ trans' = Changes(state, "error", c.by)
    /\ state' = "error"
    /\ lastError' = "start failed"
    \* BaseMcpServer.start counts the failure, HttpMcpServer.start does not
    /\ errorCount' = IF server = "BaseMcpServer" THEN errorCount + 1 ELSE errorCount
    /\ UNCHANGED <<tools, transports, httpTransport, stdioTransport, stdioOpen, history,
                   lastReg, server, ops>>
    /\ UNCHANGED <<cfg, now, store, win, req, pc, resp, sent, timer, toolRunning, execCalls,
                   execStart, counted, lim, thrown, lookedUp, timedOut, lateDone, ctx,
                   prepared, execImpl, auth, requestCount, executions>>
    /\ UNCHANGED concVars

\* BaseMcpServer.stop after the race, won by this._server.close()
BaseStopClosed ==
    /\ \E c \in calls :
          /\ c.at = "shutdown"
          /\ calls' = IF c.by = "restart"
                      THEN (calls \ {c}) \cup {Call(c.id, c.by, "stopped", 0, now)}
                      ELSE calls \ {c}
          /\ trans' = Changes(state, "stopped", c.by)
    /\ stdioOpen' = FALSE
    /\ state' = "stopped"
    /\ UNCHANGED <<tools, transports, httpTransport, stdioTransport, history, lastReg,
                   server, ops>>
    /\ UNCHANGED <<cfg, now, store, win, req, pc, resp, sent, timer, toolRunning, execCalls,
                   execStart, counted, lim, thrown, lookedUp, timedOut, lateDone, ctx,
                   prepared, execImpl, auth, statVars>>

\* BaseMcpServer.stop after the race, lost to the shutdown timer or to a
\* close() that rejected: the catch block (a restart() ends with it)
BaseStopFails ==
    /\ \E c \in calls :
          /\ c.at = "shutdown"
          /\ calls' = calls \ {c}
          /\ trans' = Changes(state, "error", c.by)
    /\ state' = "error"
    /\ lastError' = "stop failed"
    /\ errorCount' = errorCount + 1
    /\ UNCHANGED <<tools, transports, httpTransport, stdioTransport, stdioOpen, history,
                   lastReg, server, ops>>
    /\ UNCHANGED <<cfg, now, store, win, req, pc, resp, sent, timer, toolRunning, execCalls,
                   execStart, counted, lim, thrown, lookedUp, timedOut, lateDone, ctx,
                   prepared, execImpl, auth, requestCount, executions>>
    /\ UNCHANGED concVars

\* HttpTransport.start resolved: the transport listens on the port
\* (listen fails while another transport holds it); _startStdioTransport
\* creates the stdio transport and waits for the connection
HttpListening ==
    /\ \E c \in calls :
          /\ c.at = "listen"
          /\ ~Listening
          /\ transports' = [transports EXCEPT ![c.tr].isStarted = TRUE]
          /\ calls' = (calls \ {c}) \cup {Call(c.id, c.by, "stdio", c.tr, now)}
    /\ stdioTransport' = TRUE
    /\ UNCHANGED <<state, trans, tools, httpTransport, stdioOpen, history, lastReg,
                   server, ops>>
    /\ UNCHANGED <<cfg, now, store, win, req, pc, resp, sent, timer, toolRunning, execCalls,
                   execStart, counted, lim, thrown, lookedUp, timedOut, lateDone, ctx,
                   prepared, execImpl, auth, statVars>>

\* HttpMcpServer.start after `await this._mcpServer.connect(this._stdioTransport)`
HttpStartConnected ==
    /\ \E c \in calls :
          /\ c.at = "stdio"
          /\ calls' = calls \ {c}
          /\ trans' = Changes(state, "running", c.by)
    /\ stdioOpen' = TRUE
    /\ state' = "running"
    /\ UNCHANGED <<tools, transports, httpTransport, stdioTransport, history, lastReg,
                   server, ops>>
    /\ UNCHANGED <<cfg, now, store, win, req, pc, resp, sent, timer, toolRunning, execCalls,
                   execStart, counted, lim, thrown, lookedUp, timedOut, lateDone, ctx,
                   prepared, execImpl, auth, statVars>>

\* HttpMcpServer.stop after `await this._httpTransport.close()`: the
\* transport it asked to close has left the port, both transport fields are
\* cleared (the stdio connection is not closed)
HttpStopClosed ==
    \* server.close calls back once the connections have ended
    /\ req.entry = "http" => pc \in {"idle", "done"}
    /\ \E c \in calls :
          /\ c.at = "close"
          /\ transports' = [transports EXCEPT ![c.tr].isStarted = FALSE]
          /\ calls' = IF c.by = "restart"
                      THEN (calls \ {c}) \cup {Call(c.id, c.by, "stopped", 0, now)}
                      ELSE calls \ {c}
          /\ trans' = Changes(state, "stopped", c.by)
    /\ httpTransport' = 0
    /\ stdioTransport' = FALSE
    /\ state' = "stopped"
    /\ UNCHANGED <<tools, stdioOpen, history, lastReg, server, ops>>
    /\ UNCHANGED <<cfg, now, store, win, req, pc, resp, sent, timer, toolRunning, execCalls,
                   execStart, counted, lim, thrown, lookedUp, timedOut, lateDone, ctx,
                   prepared, execImpl, auth, statVars>>

Next ==
    \/ \E q \in Requests : Arrive(q)
    \/ Tick
    \/ RateLimiter
    \/ ParseBody
    \/ TimeoutGuard
    \/ CreateRequestContext
    \/ AuthMiddleware
    \/ HandleHealth
    \/ HandleInfo
    \/ HandleListTools
    \/ NotFoundHandler
    \/ HandleJsonRpc
    \/ HandleExecuteTool
    \/ HttpToolSettles
    \/ RpcToolSettles
    \/ ResponseTimeout
    \/ Finish
    \/ BaseCallTool
    \/ BaseToolSettles
    \/ RaceTimeout
    \/ HttpSrvCallTool
    \/ HttpSrvToolSettles
    \/ Release

Spec == Init /\ [][Next]_vars

\* ---------------------------------------------------------------------------
\* The lifecycle of a server of either class, from its construction
\* ---------------------------------------------------------------------------

\* the state after `new BaseMcpServer(config)` / `new HttpMcpServer(config)`
InitConstructed ==
    /\ cfg = [authEnabled |-> FALSE, authType |-> "apikey"]
    /\ NoRequest
    /\ server \in ServerClasses
    /\ state = "stopped"
    /\ tools = <<>>
    /\ transports = <<>>
    /\ httpTransport = 0
    /\ stdioTransport = FALSE
    /\ stdioOpen = FALSE
    /\ calls = {}
    /\ ops = 0
    /\ trans = <<>>
    /\ history = <<>>
    /\ lastReg = NoRegistration
    /\ NoStats

NextLifecycle ==
    \/ Start
    \/ Stop
    \/ Restart
    \/ RestartStarts
    \/ BaseStartConnected
    \/ StartFails
    \/ BaseStopClosed
    \/ BaseStopFails
    \/ HttpListening
    \/ HttpStartConnected
    \/ HttpStopClosed
    \/ Tick

SpecLifecycle == InitConstructed /\ [][NextLifecycle]_vars

\* ---------------------------------------------------------------------------
\* The registry of a server that is constructed, started once and then
\* serves calls and discovery, tools being registered between requests
\* ---------------------------------------------------------------------------

NextRegistry ==
    \/ \E t \in RegistrationInputs : pc = "idle" /\ RegisterTool(t)
    \/ state = "stopped" /\ Start
    \/ BaseStartConnected
    \/ HttpListening
    \/ HttpStartConnected
    \/ \E q \in RegistryRequests : Arrive(q)
    \/ GetTool
    \/ ListTools
    \/ GetHealth
    \/ BaseListTools
    \/ HttpSrvListTools
    \/ BaseCallTool
    \/ BaseToolSettles
    \/ HttpSrvCallTool
    \/ HttpSrvToolSettles
    \/ RateLimiter
    \/ ParseBody
    \/ TimeoutGuard
    \/ CreateRequestContext
    \/ AuthMiddleware
    \/ HandleHealth
    \/ HandleListTools
    \/ HandleExecuteTool
    \/ HttpToolSettles
    \/ Finish
    \/ Release

SpecRegistry == InitConstructed /\ [][NextRegistry]_vars

\* ---------------------------------------------------------------------------
\* Shutdown of a running server while requests come in
\* ---------------------------------------------------------------------------

\* calls of echo on each transport
ShutdownRequests ==
    { Req("http", "POST", <<"mcp", "tools", "echo">>, "ip1", NoToken, NoToken, TRUE, "", "", "echo", "", "", "ok") }
    \cup
    { Req(e, "", <<>>, "", NoToken, NoToken, TRUE, "2.0", "tools/call", "echo", "", "", "ok") :
        e \in {"stdio_base", "stdio_http"} }

InitShutdown ==
    /\ Init
    /\ cfg = [authEnabled |-> FALSE, authType |-> "apikey"]

NextShutdown ==
    \/ Stop
    \/ BaseStopClosed
    \/ BaseStopFails
    \/ HttpStopClosed
    \/ Tick
    \/ \E q \in ShutdownRequests : Arrive(q)
    \/ RateLimiter
    \/ ParseBody
    \/ TimeoutGuard
    \/ CreateRequestContext
    \/ AuthMiddleware
    \/ HandleExecuteTool
    \/ HttpToolSettles
    \/ ResponseTimeout
    \/ Finish
    \/ BaseCallTool
    \/ BaseToolSettles
    \/ RaceTimeout
    \/ HttpSrvCallTool
    \/ HttpSrvToolSettles
    \/ Release

SpecShutdown == InitShutdown /\ [][NextShutdown]_vars

\* ---------------------------------------------------------------------------
\* Tool calls handled side by side on a running server
\* ---------------------------------------------------------------------------

InitCounters == Init /\ cfg = [authEnabled |-> FALSE, authType |-> "apikey"]

NextCounters ==
    \/ \E i \in DispatchIds, d \in DispatchInputs :
           CallToolBegins(i, d) \/ ExecuteToolBegins(i, d) \/ RouteToolBegins(i, d)
    \/ \E i \in DispatchIds : CallToolSettles(i) \/ ExecuteToolSettles(i) \/ RouteToolSettles(i)
    \/ OnError

SpecCounters == InitCounters /\ [][NextCounters]_vars

\* ---------------------------------------------------------------------------
\* Authentication: an HttpTransport with auth.enabled, every credential
\* ---------------------------------------------------------------------------

InitAuth ==
    /\ Init
    /\ server = "HttpMcpServer"
    /\ cfg.authEnabled

NextAuth ==
    \/ \E q \in AuthRequests : Arrive(q)
    \/ RateLimiter
    \/ ParseBody
    \/ TimeoutGuard
    \/ CreateRequestContext
    \/ AuthMiddleware
    \/ HandleHealth
    \/ HandleExecuteTool
    \/ HttpToolSettles
    \/ Finish
    \/ Release

SpecAuth == InitAuth /\ [][NextAuth]_vars

\* ---------------------------------------------------------------------------
\* The limiter under load from two client addresses (default configuration)
\* ---------------------------------------------------------------------------

InitLimiter ==
    /\ Init
    /\ server = "HttpMcpServer"
    /\ cfg = [authEnabled |-> FALSE, authType |-> "apikey"]

NextLimiter ==
    \/ \E q \in LimiterRequests : Arrive(q)
    \/ Tick
    \/ RateLimiter
    \/ ParseBody
    \/ TimeoutGuard
    \/ CreateRequestContext
    \/ AuthMiddleware
    \/ HandleHealth
    \/ HandleExecuteTool
    \/ HttpToolSettles
    \/ ResponseTimeout
    \/ Finish
    \/ Release

SpecLimiter == InitLimiter /\ [][NextLimiter]_vars


\* ---------------------------------------------------------------------------
\* Properties
\* ---------------------------------------------------------------------------

\* the handling of the request has ended and nothing of it is still running
Handled == pc = "done" /\ ~toolRunning

\* the payload tells the caller what became of the request: anything but
\* silence and the bare 202 {accepted: true}
CarriesOutcome(r) == r.kind \notin {"none", "Accepted"}

\* the token the request presents passes the configured check (or none is asked)
CredentialValid(q) ==
    \/ q.entry # "http"
    \/ ~AuthMounted
    \/ (ExtractToken(q) # NoToken /\ TokenAccepted(cfg.authType, ExtractToken(q)))

\* paths the specification exempts from authentication: the code's allow-list
\* and the /info route
ExemptPath(q) == IsPublicEndpoint(q.path) \/ IsPublicToolAction(q) \/ RouteOf(q) = "info"

\* C1: every accepted request, on either transport, ends with a ToolResult or a
\* well-formed error envelope that carries its outcome; none is dropped.
\* (Stated for the requests whose handling has ended.)
C1_EveryRequestAnswered ==
    Handled => (sent >= 1 /\ CarriesOutcome(resp))

\* C2: dispatch never throws past its boundary: a missing tool, an exception in
\* the tool, an invalid result or a timeout never leaves the dispatcher as an
\* exception.
C2_DispatchNeverThrows == ~thrown

\* C3: a request without a credential on a non-exempt path ends in a 401 and
\* the tool's execute is not invoked.
C3_NoCredentialNoExecution ==
    (req.entry = "http" /\ ExtractToken(req) = NoToken /\ ~ExemptPath(req))
        => (execCalls = 0 /\ (pc = "done" => resp.status = 401))

\* the payload reports success: success = true, or isError = false in the
\* {content, isError} shape
ReportsSuccess(r) == r.success = "true" \/ (r.kind = "CallResult" /\ r.isError = "false")

\* C4: a call of a registered tool with a valid credential, within the rate
\* limit and with valid input returns a result that reports success.
C4_ValidCallSucceeds ==
    (/\ Handled
     /\ lookedUp
     /\ req.name \in RegisteredTools
     /\ CredentialValid(req)
     /\ lim.decision # "rejected"
     /\ req.behav = "ok"
     /\ ~timedOut)
        => ReportsSuccess(resp)

\* C5: a call of an unregistered tool name yields a 404-class not-found error
\* whose payload lists all registered tool names and not the requested one,
\* on every transport.
C5_NotFoundListsTools ==
    (pc = "done" /\ lookedUp /\ req.name \notin RegisteredTools)
        => (/\ resp.kind = "ToolNotFound"
            /\ resp.hasList
            /\ SetOf(resp.tools) = RegisteredTools
            /\ req.name \notin SetOf(resp.tools))

\* the deadline the configuration sets for the transport the call came on
Deadline(q) == IF q.entry = "http" THEN securityTimeout ELSE TOOL_EXECUTION

\* C6: a caller whose tool does not complete is answered with a timeout no
\* later than the deadline: no caller is still waiting for the tool once the
\* deadline has passed.
C6_TimeoutByDeadline ==
    (toolRunning /\ sent = 0) => now <= execStart + Deadline(req)

\* C7: each request receives at most one response, and a caller answered by a
\* timeout keeps that answer when the tool completes later.
C7_AtMostOneResponse ==
    /\ sent <= 1
    /\ timedOut => resp \in {RequestTimeoutResp, BaseErrorResp}

\* C7 witness: the caller got the timeout, then the tool completed
C7_Witness == timedOut /\ lateDone /\ ~toolRunning /\ execCalls = 1 /\ sent = 1

\* C8: within one window at most maxRequests requests of a key are allowed;
\* the next one is rejected with 429.
C8_AtMostNPerWindow == \A k \in Keys : win[k].allowed <= maxRequests

\* C9: the first counted request of a key after its window has elapsed (or
\* when it has none) starts a window with count 1 and is allowed.
C9_FreshWindowAllows ==
    lim.fresh => (lim.decision = "allowed" /\ lim.hits = 1)

\* C9 witness: the key was being rejected in the window before
C9_Witness ==
    /\ req.entry = "http"
    /\ lim.fresh /\ lim.decision = "allowed"
    /\ win[req.ip].prevRejected

\* C10: a health-check request is never counted by the limiter and never
\* rejected by it.
C10_HealthNeverLimited ==
    (req.entry = "http" /\ RouteOf(req) = "health")
        => (~counted /\ lim.decision \in {"none", "skipped"} /\ resp.status # 429)

\* C10 witness: a health check answered 200 while its key is over the limit
C10_Witness ==
    /\ req.entry = "http" /\ RouteOf(req) = "health"
    /\ pc = "done" /\ resp.status = 200
    /\ now < store[req.ip].resetTime
    /\ store[req.ip].hits > maxRequests

\* ---------------------------------------------------------------------------
\* Lifecycle properties
\* ---------------------------------------------------------------------------

\* the transitions of the documented state machine
LifecycleTransitions ==
    { <<"stopped", "starting">>, <<"starting", "running">>, <<"running", "stopping">>,
      <<"stopping", "stopped">>, <<"starting", "error">>, <<"stopping", "error">> }

\* C11: every change of the server state is one of stopped->starting,
\* starting->running, running->stopping, stopping->stopped, starting->error,
\* stopping->error.
C11_OnlyLifecycleTransitions ==
    \A t \in SetOf(trans) : <<t.from, t.to>> \in LifecycleTransitions

\* C12: the server state leaves error only inside a restart() call.
C12_ErrorLeftOnlyByRestart ==
    \A t \in SetOf(trans) : t.from = "error" => t.by = "restart"

\* ---------------------------------------------------------------------------
\* Registry properties
\* ---------------------------------------------------------------------------

\* the positions of history at which a tool named `name` was registered
RegistrationsOf(name) == {i \in 1..Len(history) : history[i].name = name}

Max(S) == CHOOSE x \in S : \A y \in S : y <= x

Min(S) == CHOOSE x \in S : \A y \in S : x <= y

\* the implementation most recently registered under `name`
LatestImpl(name) == history[Max(RegistrationsOf(name))].impl

\* `name` was registered twice, with different implementations
RegisteredTwice(name) ==
    \E i, j \in RegistrationsOf(name) : i < j /\ history[i].impl # history[j].impl

\* C13: once a name has been registered twice with different
\* implementations, a call of that name on any transport runs the
\* implementation registered last.
C13_SecondImplementationRuns ==
    (execCalls > 0 /\ RegisteredTwice(req.name)) => execImpl = LatestImpl(req.name)

\* C14: registerTool with a tool whose name is empty throws ValidationError
\* and leaves the registry without that tool.
C14_EmptyNameRejected ==
    (lastReg.outcome # "none" /\ lastReg.tool.name = "")
        => (lastReg.outcome = "ValidationError" /\ ~MapHas(tools, ""))

\* C15: registerTool with a tool that has no input schema throws
\* ValidationError and leaves the registry without that tool.
C15_MissingSchemaRejected ==
    (lastReg.outcome # "none" /\ ~lastReg.tool.hasParameters)
        => (lastReg.outcome = "ValidationError" /\ ~MapHas(tools, lastReg.tool.name))

\* a response that enumerates tools
ListsTools(r) == r.kind \in {"ToolsList", "ListTools", "ToolNotFound"}

\* C16: every list of tools handed out (listTools(), the ListTools handlers,
\* GET /tools, availableTools) names each tool once, in the order in which
\* the names were first registered.
C16_ListedInRegistrationOrder ==
    ListsTools(resp) =>
        \A i, j \in 1..Len(resp.tools) :
            i < j => /\ RegistrationsOf(resp.tools[i]) # {}
                     /\ RegistrationsOf(resp.tools[j]) # {}
                     /\ Min(RegistrationsOf(resp.tools[i])) < Min(RegistrationsOf(resp.tools[j]))

\* a list of two tools, the first of which was registered again after the
\* second had been registered
C16_Witness ==
    /\ ListsTools(resp)
    /\ Len(resp.tools) = 2
    /\ Max(RegistrationsOf(resp.tools[1])) > Max(RegistrationsOf(resp.tools[2]))

\* C17: a read of the registry made after a registration reflects it: a
\* list names every registered tool, a lookup of a registered name finds it.
C17_ReadsReflectRegistration ==
    /\ (pc = "done" /\ resp.kind \in {"ToolsList", "ListTools"})
           => SetOf(resp.tools) = SetOf(MapKeys(history))
    /\ (pc = "done" /\ resp.kind = "Tool" /\ MapHas(history, req.name))
           => resp.tools = <<req.name>>
    /\ (lookedUp /\ MapHas(history, req.name)) => execCalls > 0

\* ---------------------------------------------------------------------------
\* Authentication properties
\* ---------------------------------------------------------------------------

\* the middleware examined a token (the path was not let through unauthenticated)
Authenticated == auth.outcome \in {"accepted", "rejected"}

\* C18: when a request carries x-access-token and an Authorization header,
\* the token that is checked, and that decides the outcome, is the
\* x-access-token.
C18_SideChannelTokenFirst ==
    (Authenticated /\ req.xAccessToken # NoToken /\ req.authorization # NoToken)
        => /\ auth.token = req.xAccessToken
           /\ auth.outcome = "accepted" <=> TokenAccepted(cfg.authType, req.xAccessToken)

\* both headers set, the Authorization header alone would have been
\* accepted, and the request is answered 401 because of the x-access-token
C18_Witness ==
    /\ req.xAccessToken # NoToken /\ req.authorization # NoToken
    /\ TokenAccepted(cfg.authType, req.authorization)
    /\ ~TokenAccepted(cfg.authType, req.xAccessToken)
    /\ auth.outcome = "rejected"
    /\ pc = "done" /\ resp = UnauthorizedResp

\* tokens whose signature and expiry are valid and whose payload has no
\* subject claim
NoSubjectTokens == {"jwt_nosub", "jwt_str"}

\* C19: under JWT authentication, a token with a valid signature and expiry
\* but without a subject claim is rejected and the tool is not executed.
C19_NoSubjectRejected ==
    (AuthMounted /\ cfg.authType = "jwt" /\ Authenticated /\ auth.token \in NoSubjectTokens)
        => (auth.outcome = "rejected" /\ execCalls = 0 /\ (pc = "done" => resp.status = 401))

\* tokens that are expired, signed with another secret, or malformed
InvalidTokens == {"expired", "forged", "bad"}

\* C20: an expired, forged or malformed token never authenticates: the
\* request is answered 401 and the tool is not executed.
C20_InvalidTokenRejected ==
    (AuthMounted /\ Authenticated /\ auth.token \in InvalidTokens)
        => (auth.outcome = "rejected" /\ execCalls = 0 /\ (pc = "done" => resp.status = 401))

\* a request in flight that carries no credential at all
NoCredential == req # NoReq /\ ExtractToken(req) = NoToken

\* C21: GET /health without a credential is answered 200 and never 401,
\* also when authentication is enabled: the public-endpoint list is consulted
\* before any credential is looked for.
C21_HealthNeedsNoCredential ==
    (NoCredential /\ req.entry = "http" /\ req.method = "GET" /\ RouteOf(req) = "health")
        => (resp.status # 401 /\ (pc = "done" => resp = HealthResp /\ resp.status = 200))

C21_Witness ==
    /\ AuthMounted /\ NoCredential
    /\ req.method = "GET" /\ RouteOf(req) = "health"
    /\ auth.outcome = "public"
    /\ pc = "done" /\ resp.status = 200

\* C22: GET /info without a credential is answered with the server
\* information and never 401, also when authentication is enabled.
C22_InfoNeedsNoCredential ==
    (NoCredential /\ req.entry = "http" /\ req.method = "GET" /\ RouteOf(req) = "info")
        => (resp.status # 401 /\ (pc = "done" => resp = InfoResp))

\* C23: a well-formed JSON-RPC 2.0 request to POST /rpc whose method no
\* handler knows is answered, to the caller, with error code -32601.
C23_UnknownMethodAnswered32601 ==
    (req # NoReq /\ req.entry = "http" /\ RouteOf(req) = "rpc"
       /\ req.jsonrpc = "2.0" /\ req.rpcMethod = "unknown/method" /\ pc = "done")
        => resp.code = -32601

\* C24: a call whose input does not satisfy the tool's declared schema is
\* not executed; it is answered with a 400-class ValidationError.
C24_InvalidInputIsValidationError ==
    (req # NoReq /\ lookedUp /\ ~SatisfiesSchema(req))
        => (execCalls = 0 /\ (pc = "done" => resp.kind = "ValidationError"))

\* a tools/call message on the stdio transport of either server class
StdioCall == req # NoReq /\ req.entry \in {"stdio_base", "stdio_http"} /\ req.rpcMethod = "tools/call"

\* C25: a tool call arriving on stdio is dispatched without any credential:
\* it never passes the authentication gate and is never answered with an
\* authentication error, whatever the HTTP transport's auth configuration.
C25_StdioNeedsNoCredential ==
    StdioCall => /\ auth = NoAuth
                 /\ resp.kind # "Unauthorized" /\ resp.status # 401
                 /\ (pc = "done" => lookedUp)

C25_Witness ==
    /\ StdioCall /\ NoCredential
    /\ server = "HttpMcpServer" /\ AuthMounted
    /\ pc = "done" /\ execCalls = 1
    /\ resp = CallResultResp("ok")

\* the tool the request names fails on this input: it resolves with
\* success = false or rejects
ToolFails == ToolReturn(req.name, req.behav) \in {"fail", "throw"}

\* the caller is answered with the result of the call (on POST /rpc the
\* caller is answered before the tool runs)
AnsweredWithResult == ~(req.entry = "http" /\ RouteOf(req) = "rpc")

\* C26: no automatic retry: within one dispatch the tool's execute is
\* invoked at most once, and once it has failed the dispatch no longer waits:
\* the caller's answer is the failure (or the timeout that came first), never
\* a success.
C26_NoRetry ==
    /\ execCalls <= 1
    /\ (req # NoReq /\ execCalls = 1 /\ ToolFails /\ ~toolRunning)
          => /\ pc # "exec"
             /\ AnsweredWithResult => (sent = 1 /\ CarriesOutcome(resp) /\ ~ReportsSuccess(resp))

C26_Witness ==
    /\ req.entry = "stdio_base" /\ req.behav = "fail"
    /\ execCalls = 1 /\ Handled /\ ~timedOut
    /\ resp = BaseToolResultResp("fail")

\* the most recent recordToolExecution call
LastExecution == executions[Len(executions)]

\* C27: every dispatch, whatever its outcome and its transport, leaves its
\* outcome (tool name, success or failure) in the server's statistics: once
\* a call has been handled, the latest recorded execution is this call's.
C27_EveryDispatchRecorded ==
    (req # NoReq /\ lookedUp /\ Handled)
        => /\ executions # <<>>
           /\ LastExecution.tool = req.name
           /\ LastExecution.success = ReportsSuccess(resp)

\* the answer tells the caller the request failed
FailureResponse(r) ==
    \/ r.status >= 400
    \/ r.kind \in {"ErrorResult", "JsonRpcError"}
    \/ r.success = "false"
    \/ r.isError = "true"

\* the answer carries the request's id: in its payload, or in the
\* X-Request-ID header _createRequestContext sets on an HTTP response
RequestIdCarried == resp.requestId \/ (req.entry = "http" /\ ctx)

\* C28: every failure response carries a requestId, a human-readable
\* message and a timestamp.
C28_FailureCarriesRequestId ==
    (sent >= 1 /\ FailureResponse(resp))
        => (RequestIdCarried /\ resp.message /\ resp.timestamp)

\* the stop() calls (of stop or restart) still waiting for a transport to close
PendingStops == {c \in calls : c.at \in {"shutdown", "close"}}

\* C29: stop() ends within the shutdown timeout: no stop() is still waiting
\* for its transports to close once the timeout has passed since it began.
C29_StopEndsWithinTimeout ==
    \A c \in PendingStops : now <= c.since + SERVER_SHUTDOWN

\* a health report: the answer of getHealth() or of GET /health
HealthReport == sent >= 1 /\ resp.health # "absent"

\* C30: the overall health reported is healthy exactly when all checks pass,
\* unhealthy when any check fails, and degraded otherwise.  The tools check
\* passes only when a tool is registered, so no report over an empty registry
\* is healthy.
C30_OverallHealthFollowsChecks ==
    HealthReport =>
        /\ resp.checks # NoChecks =>
              /\ resp.health = "healthy" <=> \A k \in DOMAIN resp.checks : resp.checks[k] = "pass"
              /\ resp.health = "unhealthy" <=> \E k \in DOMAIN resp.checks : resp.checks[k] = "fail"
              /\ resp.health \in {"healthy", "unhealthy", "degraded"}
        /\ resp.health = "healthy" => Len(tools) > 0

\* ---------------------------------------------------------------------------
\* Shutdown, dispatch order, statistics, allow-list and lifecycle properties
\* ---------------------------------------------------------------------------

\* a call has been dispatched, its tool is running and its caller has no
\* answer yet
RequestPending == req # NoReq /\ toolRunning /\ sent = 0

\* C31: shutdown stops accepting requests, waits for the pending ones and
\* only then closes the transport: once the server is stopped no request is
\* pending and none is taken up.
C31_StoppedOnlyWhenQuiet ==
    state = "stopped" => ~RequestPending


\* C32: the dispatch stages of one request run in the order authentication,
\* rate limiting, tool lookup, (validation,) execution, and a failing stage
\* stops the later ones: the limiter handles no request before the
\* authentication gate has, a request turned away by the gate is never handled
\* by the limiter, and no tool is looked up or run for a request that the gate
\* or the limiter turned away.
C32_StagesInOrder ==
    cfg.authEnabled /\ req # NoReq /\ req.entry = "http" =>
        /\ lim.decision # "none" => auth.outcome # "none"
        /\ auth.outcome = "rejected" => lim.decision = "none"
        /\ (auth.outcome = "rejected" \/ lim.decision = "rejected") => ~lookedUp /\ execCalls = 0


\* C33: a non-exempt HTTP request passes the middleware in the order request context,
\* body parsing, timeout guard, authentication gate, routing: whenever the
\* body of a request has been parsed or its timeout guard armed, its request
\* context has been assigned.
C33_ContextBeforeParsing ==
    /\ req # NoReq /\ req.entry = "http"
    /\ ~IsPublicEndpoint(req.path) /\ ~IsPublicToolAction(req)
    /\ lim.decision = "allowed"
    /\ pc # "parse" \/ timer # NoTimer
    => ctx


\* the dispatches that have started
Started == { i \in DispatchIds : dispatches[i].at # "none" }

\* C34: the counters are incremented atomically, no increment is lost under
\* any interleaving of dispatches: the total-requests counter equals the
\* number of dispatches started.
C34_RequestCountIsDispatchesStarted ==
    requestCount = Cardinality(Started)

\* C35: lastError holds the message of the most recently recorded failure,
\* one message, never an older one.
C35_LastErrorIsLatestFailure ==
    failures # <<>> => lastError = failures[Len(failures)]

\* two failures with different messages were recorded, the later one by the
\* dispatch that started first
C35_Witness ==
    /\ Len(failures) >= 2
    /\ failures[Len(failures)] # failures[1]
    /\ \E i, j \in DispatchIds :
          /\ i < j /\ dispatches[i].outcome = "error" /\ dispatches[j].outcome = "error"
          /\ dispatches[i].name = "echo" /\ dispatches[i].behav = "throw"
          /\ dispatches[j].name = "health"
          /\ failures[Len(failures)] = ThrownMessage("echo")
          /\ failures[Len(failures) - 1] = ThrownMessage("health")


\* the dispatches of a CallTool handler whose tool ran and failed: it threw,
\* outlasted the timeout, or returned a result with success: false
FailedDispatches ==
    { i \in DispatchIds :
        /\ dispatches[i].at = "done"
        /\ dispatches[i].via \in {"CallTool", "_executeTool"}
        /\ dispatches[i].name \in serverTools
        /\ dispatches[i].outcome \in {"fail", "error"} }

\* C40: the total-errors counter counts every failed dispatch, one whose
\* tool returned success: false as much as one whose tool threw.
C40_ErrorCountCountsFailedResults ==
    errorCount >= Cardinality(FailedDispatches)


\* the actions of prompt_attributes that need no credential
PublicActions == {"get_default", "get_models_only"}

\* C36: the action checked against the public allow-list is the action the
\* tool receives: a per-tool request let through without a credential being
\* examined is executed only with an input whose action is allow-listed.
C36_AllowListedActionIsExecuted ==
    (/\ AuthMounted /\ req # NoReq /\ RouteOf(req) = "tool"
     /\ ~IsPublicEndpoint(req.path)
     /\ auth.outcome = "public" /\ execCalls > 0)
        => ToolInputAction(req) \in PublicActions

\* C37: a per-tool execution request is never exempt from authentication or
\* from rate limiting because of the tool's name: every request to
\* /tools/{name} is counted by the limiter, and its credential is examined
\* unless its action is on the public allow-list.
C37_ToolRouteNeverExemptByName ==
    (req # NoReq /\ req.entry = "http" /\ RouteOf(req) = "tool" /\ req.method # "OPTIONS") =>
        /\ lim.decision # "skipped"
        /\ (AuthMounted /\ auth.outcome = "public") => IsPublicToolAction(req)


\* the start() calls that are binding a transport: at the await of the SDK
\* server's connect or of the HTTP transport's listen
BindingStarts == { c \in calls : c.by = "start" /\ c.at \in {"connect", "listen"} }

\* C38: overlapping start() calls bind the transports at most once: while one
\* start() is binding, no second start() begins a bind.
C38_AtMostOneBindInProgress ==
    Cardinality(BindingStarts) <= 1

\* C39: whenever the state is stopped, no transport, HTTP or stdio, is bound
\* or able to deliver requests.
C39_StoppedMeansNoTransport ==
    state = "stopped" => (~Listening /\ ~stdioOpen)

====
